---- MODULE Spec2Model ----
(***************************************************************************)
(* Capture-and-coordination pipeline of the action-capture extension:      *)
(* the Session Store (src/src/utils/storage.ts), the page-resident Action  *)
(* Recorder (class ActionCapture, src/src/contents/capture.ts 15-291) and  *)
(* the Capture Coordinator with its screenshot queue (class                *)
(* BackgroundManager, src/src/contents/capture.ts 309-578).                *)
(*                                                                         *)
(* Every `await` of the code is a suspension point.  A chain of awaits is  *)
(* a task: a record holding the position (pc) and the locals of the async  *)
(* function.  One step of a task is one asynchronous primitive             *)
(* (chrome.storage.local.get / set, chrome.tabs.*, a timer, a message      *)
(* delivery) together with the synchronous code that runs when it returns. *)
(*                                                                         *)
(* Encodings: an optional number (endTime, currentSession, screenshot) is  *)
(* 0 when absent; an optional record is a sequence of length 0 or 1.       *)
(* Date.now() is the variable now, which starts at 1.  A session id        *)
(* `session_<Date.now()>` is the number <Date.now()>; an action id         *)
(* `<sessionId>_<n>` is the pair <<sessionId, n>>.                         *)
(***************************************************************************)
EXTENDS Integers, Sequences, FiniteSets, TLC

\* ---------------------------------------------------------------- bounds
MaxTime == 2        \* Date.now() runs from 1 to MaxTime
MaxEvents == 2      \* events the pages observe; scroll events fired
MaxInFlight == 2    \* handlers of one page that are between two awaits
MaxScrollTime == 3  \* Date.now() runs from 1 to MaxScrollTime where scrolls are timed
MaxTokens == 5      \* tokens in a text typed into a field
MaxNodes == 2       \* elements in the body of a document
MaxLoads == 2       \* pages loaded
TickMs == 500       \* milliseconds per step of now

\* ------------------------------------------------------- program constants
MAX_RETRIES == 3
SCROLL_THROTTLE_MS == 1000
Absent == 0
MASK == "MASKED"

\* The open tabs: the tab an action fires in, and another one that can be
\* in the foreground instead.
Tabs == {1, 2}

VARIABLES
  now,                     \* Date.now()
  store,                   \* the document under STORAGE_KEY in chrome.storage.local
  tabs,                    \* per tab: the page and its ActionCapture instance
  activeTab,               \* the foreground tab (0: none)
  ctasks,                  \* running message handlers of the BackgroundManager
  ptasks,                  \* running event handlers of the pages
  screenshotQueue,         \* BackgroundManager.screenshotQueue
  isProcessingScreenshots, \* BackgroundManager.isProcessingScreenshots
  loops,                   \* running activations of processScreenshotQueue
  hist                     \* history (ghost) variables, read only to bound a run

vars == <<now, store, tabs, activeTab, ctasks, ptasks, screenshotQueue,
          isProcessingScreenshots, loops, hist>>

\* ------------------------------------------------------------ Session Store
None == << >>
Some(x) == <<x>>

DefaultSettings ==
  [autoScreenshot |-> TRUE, blurPasswords |-> TRUE, captureScrolling |-> TRUE]

\* getData on an empty storage area: the default document
DefaultData ==
  [sessions |-> << >>, currentSession |-> Absent, settings |-> DefaultSettings]

\* data.sessions.findIndex((s) => s.id === id): 0 when there is none
FindIndex(sessions, id) ==
  IF \E i \in 1..Len(sessions) : sessions[i].id = id
  THEN CHOOSE i \in 1..Len(sessions) :
         /\ sessions[i].id = id
         /\ \A j \in 1..(i - 1) : sessions[j].id # id
  ELSE 0

\* StorageManager.getCurrentSession applied to the document read
GetCurrentSession(data) ==
  IF data.currentSession = Absent
  THEN None
  ELSE LET i == FindIndex(data.sessions, data.currentSession)
       IN IF i = 0 THEN None ELSE Some(data.sessions[i])

\* A saveSession that always pushes
MutSaveSession(data, session) ==
  [data EXCEPT !.sessions = Append(@, session)]

\* StorageManager.saveSession: the document written, from the document read
SaveSession(data, session) ==
  LET i == FindIndex(data.sessions, session.id)
  IN IF i > 0
     THEN [data EXCEPT !.sessions[i] = session]
     ELSE [data EXCEPT !.sessions = Append(@, session)]

\* StorageManager.setCurrentSession: the document written (null is Absent)
SetCurrentSession(data, sessionId) ==
  [data EXCEPT !.currentSession = sessionId]

SessionIds(data) == {data.sessions[i].id : i \in 1..Len(data.sessions)}

\* A deleteSession that leaves the pointer alone
MutDeleteSession(data, sessionId) ==
  [data EXCEPT !.sessions = SelectSeq(@, LAMBDA x : x.id # sessionId)]

\* StorageManager.deleteSession: the document written, from the document read
DeleteSession(data, sessionId) ==
  [data EXCEPT
     !.sessions = SelectSeq(@, LAMBDA x : x.id # sessionId),
     !.currentSession = IF @ = sessionId THEN Absent ELSE @]

\* StorageManager.deleteAllSessions: the document written
DeleteAllSessions(data) ==
  [data EXCEPT !.sessions = << >>, !.currentSession = Absent]

\* A createSession that marks the session recording
MutNewSessionRecording(t) ==
  [id |-> t, startTime |-> t, endTime |-> Absent, actions |-> << >>,
   isRecording |-> TRUE]

\* A createSession that stamps endTime at creation
MutNewSession(t) ==
  [id |-> t, startTime |-> t, endTime |-> t, actions |-> << >>,
   isRecording |-> FALSE]

\* BackgroundManager.createSession: the session object built
NewSession(t) ==
  [id |-> t, startTime |-> t, endTime |-> Absent, actions |-> << >>,
   isRecording |-> FALSE]

\* ---------------------------------------------------- Sensitive Data Filter
\* A text is a sequence of characters (strings of length 1).
Digit == {"0", "1", "2", "3", "4", "5", "6", "7", "8", "9"}

Lower ==
  {"a", "b", "c", "d", "e", "f", "g", "h", "i", "j", "k", "l", "m", "n", "o",
   "p", "q", "r", "s", "t", "u", "v", "w", "x", "y", "z"}

Upper ==
  {"A", "B", "C", "D", "E", "F", "G", "H", "I", "J", "K", "L", "M", "N", "O",
   "P", "Q", "R", "S", "T", "U", "V", "W", "X", "Y", "Z"}

\* \s and \w of a regular expression
Space == {" ", "\t", "\n", "\r"}
Word == Lower \cup Upper \cup Digit \cup {"_"}

\* One element of a pattern: a greedy character class with its repetition
\* bounds, or the assertion \b
Cls(cls, min, max) == [wb |-> FALSE, cls |-> cls, min |-> min, max |-> max]
WordBoundary == [wb |-> TRUE, cls |-> {}, min |-> 0, max |-> 0]

\* SENSITIVE_PATTERNS.email, on a text of n characters
EmailPattern(n) ==
  << WordBoundary,
     Cls(Lower \cup Upper \cup Digit \cup {".", "_", "%", "+", "-"}, 1, n),
     Cls({"@"}, 1, 1),
     Cls(Lower \cup Upper \cup Digit \cup {".", "-"}, 1, n),
     Cls({"."}, 1, 1),
     Cls(Lower \cup Upper \cup {"|"}, 2, n),
     WordBoundary >>

\* SENSITIVE_PATTERNS.phone without its optional group
PhonePattern ==
  << Cls({"("}, 0, 1), Cls(Digit, 1, 4), Cls({")"}, 0, 1),
     Cls({"-", "."} \cup Space, 0, 1), Cls(Digit, 1, 4),
     Cls({"-", "."} \cup Space, 0, 1), Cls(Digit, 1, 9) >>

\* the optional group of SENSITIVE_PATTERNS.phone
PhonePrefix ==
  << Cls({"+"}, 1, 1), Cls(Digit, 1, 3), Cls({"-", "."} \cup Space, 0, 1) >>

\* SENSITIVE_PATTERNS.creditCard
CreditCardPattern ==
  << WordBoundary,
     Cls(Digit, 4, 4), Cls({"-"} \cup Space, 0, 1),
     Cls(Digit, 4, 4), Cls({"-"} \cup Space, 0, 1),
     Cls(Digit, 4, 4), Cls({"-"} \cup Space, 0, 1),
     Cls(Digit, 4, 4), WordBoundary >>

\* SENSITIVE_PATTERNS.ssn
SsnPattern ==
  << WordBoundary, Cls(Digit, 3, 3), Cls({"-"}, 1, 1), Cls(Digit, 2, 2),
     Cls({"-"}, 1, 1), Cls(Digit, 4, 4), WordBoundary >>

\* \b before the character at pos
AtWordBoundary(text, pos) ==
  (pos > 1 /\ text[pos - 1] \in Word) # (pos <= Len(text) /\ text[pos] \in Word)

\* how many characters from pos on are in cls, counting up to max
RECURSIVE RunLen(_, _, _, _)
RunLen(text, pos, cls, max) ==
  IF max = 0 \/ pos > Len(text) \/ text[pos] \notin cls THEN 0
  ELSE 1 + RunLen(text, pos + 1, cls, max - 1)

\* The backtracking match of elements i.. of pat at pos: the position after
\* the match, 0 when there is none.  A class takes as many characters as it
\* can and gives them back one by one while the rest does not match.
RECURSIVE MatchFrom(_, _, _, _)
RECURSIVE TryCounts(_, _, _, _, _)
MatchFrom(pat, i, text, pos) ==
  IF i > Len(pat) THEN pos
  ELSE IF pat[i].wb
       THEN IF AtWordBoundary(text, pos) THEN MatchFrom(pat, i + 1, text, pos) ELSE 0
       ELSE TryCounts(pat, i, text, pos, RunLen(text, pos, pat[i].cls, pat[i].max))

TryCounts(pat, i, text, pos, n) ==
  IF n < pat[i].min THEN 0
  ELSE LET r == MatchFrom(pat, i + 1, text, pos + n)
       IN IF r # 0 THEN r ELSE TryCounts(pat, i, text, pos, n - 1)

\* the match of one of the four patterns at pos
MatchRule(rule, text, pos) ==
  CASE rule = "email" -> MatchFrom(EmailPattern(Len(text)), 1, text, pos)
    [] rule = "phone" ->
         LET r == MatchFrom(PhonePrefix \o PhonePattern, 1, text, pos)
         IN IF r # 0 THEN r ELSE MatchFrom(PhonePattern, 1, text, pos)
    [] rule = "creditCard" -> MatchFrom(CreditCardPattern, 1, text, pos)
    [] rule = "ssn" -> MatchFrom(SsnPattern, 1, text, pos)

IndexOf(m, c) == CHOOSE i \in 1..Len(m) : m[i] = c /\ \A j \in 1..(i - 1) : m[j] # c

Stars(k) == [i \in 1..k |-> "*"]

\* the replacement blurSensitiveText computes for the match m of a pattern
Replacement(rule, m) ==
  CASE rule = "email" ->
         <<m[1]>> \o Stars(3) \o <<"@">> \o SubSeq(m, IndexOf(m, "@") + 1, Len(m))
    [] rule = "phone" -> [i \in 1..Len(m) |-> IF m[i] \in Digit THEN "*" ELSE m[i]]
    [] rule = "creditCard" ->
         LET cleaned == SelectSeq(m, LAMBDA c : c \notin {"-"} \cup Space)
         IN Stars(4) \o <<"-">> \o Stars(4) \o <<"-">> \o Stars(4) \o <<"-">>
              \o SubSeq(cleaned, Len(cleaned) - 3, Len(cleaned))
    [] rule = "ssn" -> Stars(3) \o <<"-">> \o Stars(2) \o <<"-">> \o Stars(4)

\* String.prototype.replace with a global pattern, from pos on
RECURSIVE ReplaceFrom(_, _, _)
ReplaceFrom(rule, text, pos) ==
  IF pos > Len(text) THEN << >>
  ELSE LET e == MatchRule(rule, text, pos)
       IN IF e # 0
          THEN Replacement(rule, SubSeq(text, pos, e - 1)) \o ReplaceFrom(rule, text, e)
          ELSE <<text[pos]>> \o ReplaceFrom(rule, text, pos + 1)

\* SecurityManager.blurSensitiveText
BlurSensitiveText(text) ==
  IF text = << >> THEN text
  ELSE ReplaceFrom("ssn",
         ReplaceFrom("creditCard",
           ReplaceFrom("phone", ReplaceFrom("email", text, 1), 1), 1), 1)

\* ------------------------------------------------------- Selector Generator
\* A document is the sequence of the children of its body; an element is a
\* record of its tag name and of the attributes and the text content
\* generateSelector reads, each a text (empty when the attribute is absent).
\* A selector is a sequence of strings, to be read concatenated.
IdentStart == Lower \cup Upper \cup {"_"}
IdentChar == IdentStart \cup Digit \cup {"-"}

\* the text is a CSS identifier
IsIdent(x) ==
  /\ x # << >>
  /\ \/ x[1] \in IdentStart
     \/ x[1] = "-" /\ Len(x) >= 2 /\ x[2] \in IdentStart \cup {"-"}
  /\ \A i \in 1..Len(x) : x[i] \in IdentChar

\* String.prototype.split: the pieces of x between the characters of seps
RECURSIVE Split(_, _)
Split(x, seps) ==
  IF \A i \in 1..Len(x) : x[i] \notin seps THEN <<x>>
  ELSE LET k == CHOOSE i \in 1..Len(x) :
                  x[i] \in seps /\ \A j \in 1..(i - 1) : x[j] \notin seps
       IN <<SubSeq(x, 1, k - 1)>> \o Split(SubSeq(x, k + 1, Len(x)), seps)

\* the class list of an element
ClassTokens(className) ==
  LET parts == Split(className, Space)
  IN {parts[i] : i \in 1..Len(parts)} \ {<< >>}

\* String.prototype.trim
RECURSIVE Trim(_)
Trim(x) ==
  IF x = << >> THEN x
  ELSE IF x[1] \in Space THEN Trim(Tail(x))
  ELSE IF x[Len(x)] \in Space THEN Trim(SubSeq(x, 1, Len(x) - 1))
  ELSE x

Throws == <<"SyntaxError">>

\* document.querySelectorAll("#" + id).length for an id of identifier
\* characters and dots: "#a.b" selects the elements with id a and class b,
\* and a piece that is no identifier makes the call throw (-1)
QueryIdCount(doc, id) ==
  LET parts == Split(id, {"."})
  IN IF \E i \in 1..Len(parts) : ~IsIdent(parts[i]) THEN -1
     ELSE Cardinality({k \in 1..Len(doc) :
            /\ doc[k].id = parts[1]
            /\ \A i \in 2..Len(parts) : parts[i] \in ClassTokens(doc[k].className)})

DigitOf(n) == <<"1", "2", "3", "4", "5", "6", "7", "8", "9">>[n]

\* generateXPath for a child of the body
GenerateXPath(doc, k) ==
  LET siblings == {j \in 1..Len(doc) : doc[j].tagName = doc[k].tagName}
      index == Cardinality({j \in siblings : j <= k})
  IN IF Cardinality(siblings) = 1
     THEN <<"/html/body", "/", doc[k].tagName>>
     ELSE <<"/html/body", "/", doc[k].tagName, "[", DigitOf(index), "]">>

\* SelectorGenerator.generateSelector for the k-th element of doc
GenerateSelector(doc, k) ==
  LET el == doc[k]
      text == Trim(el.text)
  IN IF el.testid # << >>
     THEN <<"[data-testid=\"">> \o el.testid \o <<"\"]">>
     ELSE IF el.id # << >> /\ QueryIdCount(doc, el.id) = -1
     THEN Throws
     ELSE IF el.id # << >> /\ QueryIdCount(doc, el.id) = 1
     THEN <<"#">> \o el.id
     ELSE IF el.aria # << >>
     THEN <<"[aria-label=\"">> \o el.aria \o <<"\"]">>
     ELSE IF el.className # << >> /\ text # << >> /\ Len(text) < 50
     THEN <<".">> \o Split(el.className, {" "})[1]
            \o <<":contains(\"">> \o text \o <<"\")">>
     ELSE GenerateXPath(doc, k)

\* ------------------------------------------------------------------- pages
\* A fresh ActionCapture (field initialisers, lines 16-18 and 210-211)
FreshRecorder ==
  [isRecording |-> FALSE, sessionId |-> Absent, actionCounter |-> 0,
   lastScrollTime |-> 0]

\* st: "closed" | "loading" (no content script yet) | "ready" (listener set)
\* init: position of ActionCapture.init: "done" | "getCurrentSession"
\* typed: the text in the page's telephone field (input.value)
\* dom: the elements of the document body
\* valid: the extension context of the content script is valid (the
\*        extension was not reloaded since the script was injected)
FreshPage(st) ==
  [st |-> st, rec |-> FreshRecorder, init |-> "done", typed |-> << >>,
   dom |-> << >>, valid |-> TRUE]

\* ActionCapture.startRecording
RecStart(rec, sessionId) ==
  [rec EXCEPT !.isRecording = TRUE, !.sessionId = sessionId,
              !.actionCounter = 0]

\* ActionCapture.stopRecording
RecStop(rec) ==
  [rec EXCEPT !.isRecording = FALSE, !.sessionId = Absent]

\* chrome.tabs.sendMessage(tab, msg) handled by ActionCapture.handleMessage;
\* it rejects (and changes nothing) when the tab has no listener.
Deliver(tb, tab, type, sessionId) ==
  IF tab \in Tabs /\ tb[tab].st = "ready"
  THEN [tb EXCEPT ![tab].rec =
          IF type = "START_RECORDING" THEN RecStart(@, sessionId)
          ELSE RecStop(@)]
  ELSE tb

OpenTabs == {t \in Tabs : tabs[t].st # "closed"}

\* chrome.tabs.query({}) as a list, in tab id order
RECURSIVE TabList(_, _)
TabList(S, except) ==
  IF S = {} THEN << >>
  ELSE LET m == CHOOSE x \in S : \A y \in S : x <= y
       IN IF m = except THEN TabList(S \ {m}, except)
          ELSE <<m>> \o TabList(S \ {m}, except)

\* ------------------------------------------------- coordinator: lifecycle
CTask(kind, pc, sid, session, data, todo) ==
  [kind |-> kind, pc |-> pc, sid |-> sid, session |-> session, data |-> data,
   todo |-> todo]

Replace(S, old, new) == (S \ {old}) \cup {new}

CoordFrame ==
  UNCHANGED <<now, ptasks, screenshotQueue, isProcessingScreenshots, loops>>

\* The popup sends one lifecycle command at a time and awaits its response
\* (createNewSession, startRecording and stopRecording of the popup).
UiIdle == \A t \in ctasks : t.kind \notin {"create", "start", "stop"}

\* CREATE_SESSION: createSession builds the session and calls saveSession,
\* whose getData reads the document.  Two commands of the popup are more
\* than a millisecond apart, so the id session_<Date.now()> is a new one.
CreateSession ==
  /\ UiIdle
  /\ now \notin SessionIds(store)
  /\ ctasks' = ctasks \cup
       {CTask("create", "saveData", now, Some(NewSession(now)), Some(store), << >>)}
  /\ UNCHANGED <<store, tabs, activeTab, hist>>
  /\ CoordFrame

\* START_RECORDING: startRecording calls setCurrentSession, whose getData
\* reads the document.
StartRecording(sessionId) ==
  /\ UiIdle
  /\ ctasks' = ctasks \cup
       {CTask("start", "setCurrent_saveData", sessionId, None, Some(store), << >>)}
  /\ hist' = [hist EXCEPT !.starts = << >>, !.halted = {}]
  /\ UNCHANGED <<store, tabs, activeTab>>
  /\ CoordFrame

\* The ghost record of the tabs the running startRecording has sent
\* START_RECORDING to, in order
NoteStart(h, t, tab) ==
  IF t.kind = "start" /\ tab \in Tabs
  THEN [h EXCEPT !.starts = Append(@, tab)]
  ELSE h

\* The ghost record of the pages that have handled a STOP_RECORDING since
\* the last START_RECORDING command (tab: the tab the message is sent to)
NoteHalt(h, t, tab) ==
  IF t.kind = "stop" /\ tab \in Tabs /\ tabs[tab].st = "ready"
  THEN [h EXCEPT !.halted = @ \cup {tab}]
  ELSE h

\* A stopRecording that cancels the queued requests
MutStopRecording ==
  /\ UiIdle
  /\ LET cur == GetCurrentSession(store)
     IN ctasks' = ctasks \cup
          {IF cur # None
           THEN CTask("stop", "saveSession_getData", cur[1].id,
                      Some([cur[1] EXCEPT !.isRecording = FALSE, !.endTime = now]),
                      None, << >>)
           ELSE CTask("stop", "setCurrent_getData", Absent, None, None, << >>)}
  /\ screenshotQueue' = << >>
  /\ UNCHANGED <<store, tabs, activeTab, hist, now, ptasks,
                 isProcessingScreenshots, loops>>

\* STOP_RECORDING: stopRecording reads the current session; if there is one
\* it clears isRecording, sets endTime and calls saveSession.
StopRecording ==
  /\ UiIdle
  /\ LET cur == GetCurrentSession(store)
     IN ctasks' = ctasks \cup
          {IF cur # None
           THEN CTask("stop", "saveSession_getData", cur[1].id,
                      Some([cur[1] EXCEPT !.isRecording = FALSE, !.endTime = now]),
                      None, << >>)
           ELSE CTask("stop", "setCurrent_getData", Absent, None, None, << >>)}
  /\ UNCHANGED <<store, tabs, activeTab, hist>>
  /\ CoordFrame

\* saveSession: getData
CoordSaveSessionGet(t) ==
  /\ t \in ctasks /\ t.pc = "saveSession_getData"
  /\ ctasks' = Replace(ctasks, t, [t EXCEPT !.pc = "saveData", !.data = Some(store)])
  /\ UNCHANGED <<store, tabs, activeTab, hist>>
  /\ CoordFrame

\* The ghost record of the endTime values stopRecording has assigned
NoteStop(h, t) ==
  IF t.kind = "stop"
  THEN [h EXCEPT !.stops = @ \cup {<<t.session[1].id, t.session[1].endTime>>}]
  ELSE h

\* The ghost record of the session the latest createSession has returned
NoteCreate(h, t) ==
  IF t.kind = "create" THEN [h EXCEPT !.created = t.session] ELSE h

\* saveSession: saveData, and what follows it in the caller
CoordSaveSessionSet(t) ==
  /\ t \in ctasks /\ t.pc = "saveData"
  /\ store' = SaveSession(t.data[1], t.session[1])
  /\ hist' = NoteCreate(NoteStop(hist, t), t)
  /\ ctasks' =
       IF t.kind = "create" THEN ctasks \ {t}
       ELSE IF t.kind = "start"
            THEN Replace(ctasks, t, [t EXCEPT !.pc = "notifyActive"])
            ELSE Replace(ctasks, t, [t EXCEPT !.pc = "setCurrent_getData"])
  /\ UNCHANGED <<tabs, activeTab>>
  /\ CoordFrame

\* setCurrentSession: getData (stopRecording)
CoordSetCurrentGet(t) ==
  /\ t \in ctasks /\ t.pc = "setCurrent_getData"
  /\ ctasks' = Replace(ctasks, t,
                 [t EXCEPT !.pc = "setCurrent_saveData", !.data = Some(store)])
  /\ UNCHANGED <<store, tabs, activeTab, hist>>
  /\ CoordFrame

\* setCurrentSession: saveData
CoordSetCurrentSet(t) ==
  /\ t \in ctasks /\ t.pc = "setCurrent_saveData"
  /\ store' = SetCurrentSession(t.data[1], IF t.kind = "start" THEN t.sid ELSE Absent)
  /\ ctasks' = Replace(ctasks, t,
                 [t EXCEPT !.pc = IF t.kind = "start" THEN "getCurrentSession"
                                  ELSE "query"])
  /\ UNCHANGED <<tabs, activeTab, hist>>
  /\ CoordFrame

\* startRecording: getCurrentSession, then isRecording = true and
\* startTime = Date.now() on the object read, then saveSession
CoordStartGetCurrent(t) ==
  /\ t \in ctasks /\ t.pc = "getCurrentSession" /\ t.kind = "start"
  /\ LET cur == GetCurrentSession(store)
     IN ctasks' = Replace(ctasks, t,
          IF cur # None
          THEN [t EXCEPT !.pc = "saveSession_getData",
                         !.session = Some([cur[1] EXCEPT !.isRecording = TRUE,
                                                         !.startTime = now])]
          ELSE [t EXCEPT !.pc = "notifyActive"])
  /\ UNCHANGED <<store, tabs, activeTab, hist>>
  /\ CoordFrame

\* startRecording: the active tab is queried and notified first
CoordNotifyActive(t) ==
  /\ t \in ctasks /\ t.pc = "notifyActive"
  /\ tabs' = Deliver(tabs, activeTab, "START_RECORDING", t.sid)
  /\ ctasks' = Replace(ctasks, t, [t EXCEPT !.pc = "query", !.data = None,
                                            !.todo = <<activeTab>>])
  /\ hist' = NoteStart(hist, t, activeTab)
  /\ UNCHANGED <<store, activeTab>>
  /\ CoordFrame

\* chrome.tabs.query({}): the tabs to notify (startRecording skips the
\* active tab it has notified already)
CoordQueryTabs(t) ==
  /\ t \in ctasks /\ t.pc = "query"
  /\ LET list == TabList(OpenTabs, IF t.kind = "start" THEN t.todo[1] ELSE 0)
     IN ctasks' = IF list = << >> THEN ctasks \ {t}
                  ELSE Replace(ctasks, t, [t EXCEPT !.pc = "notify", !.data = None,
                                                    !.todo = list])
  /\ UNCHANGED <<store, tabs, activeTab, hist>>
  /\ CoordFrame

\* the for loop over the tabs: one chrome.tabs.sendMessage
CoordNotify(t) ==
  /\ t \in ctasks /\ t.pc = "notify"
  /\ tabs' = Deliver(tabs, Head(t.todo),
                     IF t.kind = "start" THEN "START_RECORDING" ELSE "STOP_RECORDING",
                     t.sid)
  /\ ctasks' = IF Len(t.todo) = 1 THEN ctasks \ {t}
               ELSE Replace(ctasks, t, [t EXCEPT !.todo = Tail(@)])
  /\ hist' = NoteHalt(NoteStart(hist, t, Head(t.todo)), t, Head(t.todo))
  /\ UNCHANGED <<store, activeTab>>
  /\ CoordFrame

\* chrome.tabs.onUpdated with status "complete" for tab tab: handleTabUpdate
\* starts, its getCurrentSession is pending
TabUpdate(tab) ==
  CTask("tabUpdate", "getCurrentSession", Absent, None, None, <<tab>>)

\* handleTabUpdate: getCurrentSession; when the session read is recording
\* the 500 ms timer is set, with the session read in its closure
CoordTabUpdateGetCurrent(t) ==
  /\ t \in ctasks /\ t.kind = "tabUpdate" /\ t.pc = "getCurrentSession"
  /\ LET cur == GetCurrentSession(store)
     IN ctasks' = IF cur # None /\ cur[1].isRecording
                  THEN Replace(ctasks, t, [t EXCEPT !.pc = "timer", !.sid = cur[1].id])
                  ELSE ctasks \ {t}
  /\ UNCHANGED <<store, tabs, activeTab, hist>>
  /\ CoordFrame

\* handleTabUpdate: the timer fires and START_RECORDING is sent to the tab
\* (hist.sent notes the message, the pointer at that moment and whether a
\* listener received it)
CoordTabUpdateSend(t) ==
  /\ t \in ctasks /\ t.kind = "tabUpdate" /\ t.pc = "timer"
  /\ tabs' = Deliver(tabs, Head(t.todo), "START_RECORDING", t.sid)
  /\ ctasks' = ctasks \ {t}
  /\ hist' = [hist EXCEPT !.sent = @ \cup
                {[tab |-> Head(t.todo), sid |-> t.sid,
                  current |-> store.currentSession,
                  received |-> tabs[Head(t.todo)].st = "ready"]}]
  /\ UNCHANGED <<store, activeTab>>
  /\ CoordFrame

\* DELETE_SESSION and DELETE_ALL_SESSIONS come from the popup or the options
\* page, behind a confirm dialog: one at a time, but not in step with the
\* lifecycle commands.
DeleteIdle == \A t \in ctasks : t.kind \notin {"delete", "deleteAll"}

\* DELETE_SESSION: deleteSession, whose getData reads the document
ReceiveDeleteSession(sessionId) ==
  /\ DeleteIdle
  /\ ctasks' = ctasks \cup
       {CTask("delete", "delete_saveData", sessionId, None, Some(store), << >>)}
  /\ UNCHANGED <<store, tabs, activeTab, hist>>
  /\ CoordFrame

\* DELETE_ALL_SESSIONS: deleteAllSessions, whose getData reads the document
ReceiveDeleteAll ==
  /\ DeleteIdle
  /\ ctasks' = ctasks \cup
       {CTask("deleteAll", "delete_saveData", Absent, None, Some(store), << >>)}
  /\ UNCHANGED <<store, tabs, activeTab, hist>>
  /\ CoordFrame

\* The ghost record of the latest delete: the id (Absent for all) and
\* whether the pointer of the document read referenced a session it removed
NoteDelete(h, t) ==
  [h EXCEPT !.deleted =
     Some([sid |-> t.sid,
           current |-> /\ t.data[1].currentSession # Absent
                       /\ t.kind = "delete" => t.data[1].currentSession = t.sid])]

\* deleteSession / deleteAllSessions: saveData
CoordDeleteSet(t) ==
  /\ t \in ctasks /\ t.pc = "delete_saveData"
  /\ store' = IF t.kind = "delete" THEN DeleteSession(t.data[1], t.sid)
              ELSE DeleteAllSessions(t.data[1])
  /\ hist' = NoteDelete(hist, t)
  /\ ctasks' = ctasks \ {t}
  /\ UNCHANGED <<tabs, activeTab>>
  /\ CoordFrame

\* ------------------------------------------------------ page: the events
\* The elements a page offers: tag, input type and current value.  The value
\* of a password input is what the user has typed into it.
Elements ==
  { [tagName |-> "button", type |-> "", value |-> ""],
    [tagName |-> "input", type |-> "text", value |-> "hello"],
    [tagName |-> "input", type |-> "password", value |-> "secret1"],
    [tagName |-> "input", type |-> "password", value |-> "secret2"] }

\* SecurityManager.isSensitiveElement, for the input types of Elements (no
\* element of Elements carries an autocomplete, name or id attribute)
IsSensitiveElement(el) ==
  el.tagName = "input" /\ el.type \in {"password", "email", "tel", "credit-card-number"}

\* SecurityManager.getSafeElementValue
GetSafeElementValue(el) ==
  IF IsSensitiveElement(el)
  THEN IF el.type = "password" THEN MASK ELSE BlurSensitiveText(el.value)
  ELSE el.value

\* SelectorGenerator.getElementInfo: the value field
GetElementInfoValue(el) == el.value

\* The UserAction object an event handler builds.  ev, tab and pwd are ghost
\* fields (the serial number of the event, the tab that observed it, whether
\* the target is a password input); no action of the model reads them.
Action(rec, type, value, t, pwd) ==
  [id |-> <<rec.sessionId, rec.actionCounter + 1>>, type |-> type,
   timestamp |-> now, value |-> value, screenshot |-> Absent,
   ev |-> Len(hist.observed) + 1, tab |-> t, pwd |-> pwd]

PTask(t, action, pc, session, data) ==
  [tab |-> t, action |-> action, pc |-> pc, session |-> session, data |-> data]

PageFrame ==
  UNCHANGED <<store, activeTab, ctasks, screenshotQueue, isProcessingScreenshots,
              loops, now>>

CanObserve(t) ==
  /\ tabs[t].st = "ready"
  /\ tabs[t].rec.isRecording /\ tabs[t].rec.sessionId # Absent
  /\ Len(hist.observed) < MaxEvents
  /\ Cardinality({p \in ptasks : p.tab = t}) < MaxInFlight

\* The synchronous part of a handler: ++actionCounter, the action object,
\* and the call of saveAction, whose getCurrentSession is then pending.
Observe(t, action) ==
  /\ tabs' = [tabs EXCEPT ![t].rec.actionCounter = @ + 1]
  /\ ptasks' = ptasks \cup {PTask(t, action, "getCurrentSession", None, None)}
  /\ hist' = [hist EXCEPT
                !.observed = Append(@, t),
                !.late = IF t \in hist.caught
                         THEN @ \cup {Len(hist.observed) + 1} ELSE @]
  /\ PageFrame

\* ActionCapture.handleClick
HandleClick(t, el) ==
  /\ CanObserve(t)
  /\ Observe(t, Action(tabs[t].rec, "click", GetElementInfoValue(el), t,
                       el.type = "password"))

\* ActionCapture.handleInput
HandleInput(t, el) ==
  /\ CanObserve(t)
  /\ el.tagName = "input"
  /\ Observe(t, Action(tabs[t].rec, "input", GetSafeElementValue(el), t,
                       el.type = "password"))

\* the page's telephone field with the text typed into it
TelField(t) == [tagName |-> "input", type |-> "tel", value |-> tabs[t].typed]

\* an input event on the telephone field of the page
HandleTyped(t) == HandleInput(t, TelField(t))

\* ActionCapture.handleClick on the k-th element of the page's document,
\* with the selector of the element descriptor.  The id of the action is
\* computed (++actionCounter) before getElementInfo runs, so when
\* generateSelector throws the counter has moved and no action is built.
HandleClickOn(t, k) ==
  /\ CanObserve(t)
  /\ k \in 1..Len(tabs[t].dom)
  /\ LET selector == GenerateSelector(tabs[t].dom, k)
         action == Action(tabs[t].rec, "click", << >>, t, FALSE)
                     @@ [selector |-> selector]
     IN /\ tabs' = [tabs EXCEPT ![t].rec.actionCounter = @ + 1]
        /\ ptasks' = IF selector = Throws THEN ptasks
                     ELSE ptasks \cup
                            {PTask(t, action, "getCurrentSession", None, None)}
        /\ hist' = [hist EXCEPT
                      !.observed = Append(@, t),
                      !.clicks = Append(@, [tab |-> t, node |-> k,
                                            selector |-> selector])]
  /\ PageFrame

\* The kinds of event the handlers are written for
EventTypes == {"click", "input", "scroll", "navigation"}

\* The first line of the four handlers: the event is ignored unless the
\* Recorder is recording and bound to a session
Ignores(rec) == ~rec.isRecording \/ rec.sessionId = Absent

\* A handler without that line: it builds the action and calls saveAction
MutHandleIdle(t, type) ==
  /\ tabs[t].st = "ready"
  /\ Ignores(tabs[t].rec)
  /\ tabs' = [tabs EXCEPT ![t].rec.actionCounter = @ + 1]
  /\ ptasks' = ptasks \cup
       {PTask(t, Action(tabs[t].rec, type, "", t, FALSE), "getCurrentSession",
              None, None)}
  /\ hist' = [hist EXCEPT !.idle = Some([tab |-> t, type |-> type])]
  /\ PageFrame

\* An event of kind type in the page of tab t while its Recorder is Idle:
\* the handler, where it is still attached, returns at its first line
\* (hist.idle notes the latest such event)
HandleIdle(t, type) ==
  /\ tabs[t].st = "ready"
  /\ Ignores(tabs[t].rec)
  /\ hist' = [hist EXCEPT !.idle = Some([tab |-> t, type |-> type])]
  /\ UNCHANGED <<tabs, ptasks>>
  /\ PageFrame

\* GET_STATUS: the response of ActionCapture.handleMessage
GetStatus(rec) == [isRecording |-> rec.isRecording, sessionId |-> rec.sessionId]

\* ActionCapture.handleNavigation
HandleNavigation(t) ==
  /\ CanObserve(t)
  /\ Observe(t, Action(tabs[t].rec, "navigation", "url", t, FALSE))

\* A throttle that also drops a scroll exactly one second after the last
MutThrottled(rec) ==
  rec.lastScrollTime # 0 /\ (now - rec.lastScrollTime) * TickMs <= SCROLL_THROTTLE_MS

\* The throttle test of handleScroll
Throttled(rec) ==
  rec.lastScrollTime # 0 /\ (now - rec.lastScrollTime) * TickMs < SCROLL_THROTTLE_MS

\* The ghost record of a scroll event fired in tab t: the time, the serial
\* number of the action built for it (0 when the handler returned early)
ScrollEvent(t, ev) == [tab |-> t, time |-> now, ev |-> ev]

\* ActionCapture.handleScroll on a recording page: the early return of the
\* throttle, or the action and the call of saveAction
HandleScroll(t) ==
  /\ tabs[t].st = "ready"
  /\ tabs[t].rec.isRecording /\ tabs[t].rec.sessionId # Absent
  /\ Len(hist.scrolls) < MaxEvents
  /\ IF Throttled(tabs[t].rec)
     THEN /\ hist' = [hist EXCEPT !.scrolls = Append(@, ScrollEvent(t, 0))]
          /\ UNCHANGED <<tabs, ptasks>>
     ELSE /\ CanObserve(t)
          /\ tabs' = [tabs EXCEPT ![t].rec.actionCounter = @ + 1,
                                  ![t].rec.lastScrollTime = now]
          /\ ptasks' = ptasks \cup
               {PTask(t, Action(tabs[t].rec, "scroll", "scrollY", t, FALSE),
                      "getCurrentSession", None, None)}
          /\ hist' = [hist EXCEPT
                        !.observed = Append(@, t),
                        !.scrolls = Append(@, ScrollEvent(t, Len(hist.observed) + 1))]
  /\ PageFrame

\* --------------------------------------------------- page: saveAction
\* The ghost record of the events whose saveAction found no current session
NoteUnsaved(h, p) ==
  IF GetCurrentSession(store) = None
  THEN [h EXCEPT !.unsaved = @ \cup {p.action.ev}]
  ELSE h

\* A saveAction that keeps the action and asks again when it finds no
\* current session
MutSaveActionGetCurrent(p) ==
  /\ p \in ptasks /\ p.pc = "getCurrentSession"
  /\ LET cur == GetCurrentSession(store)
     IN ptasks' = Replace(ptasks, p,
          IF cur = None
          THEN p
          ELSE [p EXCEPT !.pc = "saveSession_getData",
                         !.session = Some([cur[1] EXCEPT
                                             !.actions = Append(@, p.action)])])
  /\ hist' = NoteUnsaved(hist, p)
  /\ UNCHANGED tabs
  /\ PageFrame

\* saveAction: getCurrentSession; without a session the action is dropped
\* and the handler goes on to requestScreenshot
SaveActionGetCurrent(p) ==
  /\ p \in ptasks /\ p.pc = "getCurrentSession"
  /\ LET cur == GetCurrentSession(store)
     IN ptasks' = Replace(ptasks, p,
          IF cur = None
          THEN [p EXCEPT !.pc = "sendMessage"]
          ELSE [p EXCEPT !.pc = "saveSession_getData",
                         !.session = Some([cur[1] EXCEPT
                                             !.actions = Append(@, p.action)])])
  /\ hist' = NoteUnsaved(hist, p)
  /\ UNCHANGED tabs
  /\ PageFrame

\* saveAction: saveSession reads the document
SaveActionGetData(p) ==
  /\ p \in ptasks /\ p.pc = "saveSession_getData"
  /\ ptasks' = Replace(ptasks, p, [p EXCEPT !.pc = "saveData", !.data = Some(store)])
  /\ UNCHANGED <<tabs, hist>>
  /\ PageFrame

\* An append that is isolated: it reads the stored session again at the
\* write and appends to what it finds
MutSaveActionSaveData(p) ==
  /\ p \in ptasks /\ p.pc = "saveData"
  /\ LET cur == GetCurrentSession(store)
     IN store' = IF cur = None THEN store
                 ELSE SaveSession(store, [cur[1] EXCEPT
                                            !.actions = Append(@, p.action)])
  /\ ptasks' = Replace(ptasks, p, [p EXCEPT !.pc = "sendMessage", !.session = None,
                                            !.data = None])
  /\ UNCHANGED <<tabs, hist, activeTab, ctasks, screenshotQueue,
                 isProcessingScreenshots, loops, now>>

\* saveAction: saveSession writes the document
SaveActionSaveData(p) ==
  /\ p \in ptasks /\ p.pc = "saveData"
  /\ store' = SaveSession(p.data[1], p.session[1])
  /\ ptasks' = Replace(ptasks, p, [p EXCEPT !.pc = "sendMessage", !.session = None,
                                            !.data = None])
  /\ UNCHANGED <<tabs, hist, activeTab, ctasks, screenshotQueue,
                 isProcessingScreenshots, loops, now>>

\* ------------------------------------------- coordinator: screenshot queue
\* A ScreenshotRequest.  rid (the serial number of the event it was sent
\* for) and attempts (how often it has been taken from the queue) are ghost
\* fields; error is the message of the Error the last attempt threw.
Request(actionId, tabId, rid) ==
  [actionId |-> actionId, tabId |-> tabId, retryCount |-> 0, rid |-> rid,
   attempts |-> 0, error |-> ""]

\* One activation of processScreenshotQueue, holding the request shifted
\* from the queue.  gone is a ghost field: the source tab was closed when
\* captureVisibleTab ran.
Loop(req) ==
  [req |-> [req EXCEPT !.attempts = @ + 1], pc |-> "activate", dataUrl |-> Absent,
   gone |-> FALSE, session |-> None, data |-> None]

\* processScreenshotQueue from its top to the first await, on queue q with
\* flag f and running loops L: <<queue, flag, loops>> afterwards
ProcessScreenshotQueue(q, f, L) ==
  IF f \/ q = << >>
  THEN <<q, f, L>>
  ELSE <<Tail(q), TRUE, L \cup {Loop(Head(q))}>>

\* A queueScreenshot that starts the processing without testing the flag
MutQueueScreenshot(q, f, L, req) ==
  ProcessScreenshotQueue(Append(q, req), FALSE, L)

\* queueScreenshot: push, then start the processing unless it is running
QueueScreenshot(q, f, L, req) ==
  IF ~f
  THEN ProcessScreenshotQueue(Append(q, req), f, L)
  ELSE <<Append(q, req), f, L>>

\* requestScreenshot: TAKE_SCREENSHOT reaches the BackgroundManager, whose
\* handleMessage runs queueScreenshot with the sender's tab id
RequestScreenshot(p) ==
  /\ p \in ptasks /\ p.pc = "sendMessage"
  /\ tabs[p.tab].valid
  /\ LET r == QueueScreenshot(screenshotQueue, isProcessingScreenshots, loops,
                              Request(p.action.id, p.tab, p.action.ev))
     IN /\ screenshotQueue' = r[1]
        /\ isProcessingScreenshots' = r[2]
        /\ loops' = r[3]
  /\ ptasks' = ptasks \ {p}
  /\ UNCHANGED <<now, store, tabs, activeTab, ctasks, hist>>

\* requestScreenshot in a page whose extension context is invalid:
\* chrome.runtime.sendMessage is called and throws "Extension context
\* invalidated"; the catch block logs it and the handler ends.  Nothing is
\* assigned in the catch block: isRecording and sessionId stay as they are.
SendMessageRejects(p) ==
  /\ p \in ptasks /\ p.pc = "sendMessage"
  /\ ~tabs[p.tab].valid
  /\ ptasks' = ptasks \ {p}
  /\ hist' = [hist EXCEPT !.caught = @ \cup {p.tab},
                          !.rejected = @ \cup {p.action.ev}]
  /\ UNCHANGED tabs
  /\ PageFrame

\* saveAction in a page whose extension context is invalid: a
\* chrome.storage call may throw as well (the source does not say whether
\* it does, so the call may also succeed: the steps of saveAction stay
\* enabled).  saveAction has no try block and neither has the handler that
\* awaits it, so the handler ends with the error raised.
StorageRejects(p) ==
  /\ p \in ptasks
  /\ p.pc \in {"getCurrentSession", "saveSession_getData", "saveData"}
  /\ ~tabs[p.tab].valid
  /\ ptasks' = ptasks \ {p}
  /\ hist' = [hist EXCEPT !.raised = @ \cup {p.action.ev}]
  /\ UNCHANGED tabs
  /\ PageFrame

\* The extension is reloaded: the context of every injected content script
\* becomes invalid, and the BackgroundManager is constructed anew with an
\* empty queue and the flag false.  The pages keep running their handlers.
InvalidateContext ==
  /\ \E t \in Tabs : tabs[t].st = "ready" /\ tabs[t].valid
  /\ tabs' = [t \in Tabs |->
               IF tabs[t].st = "ready" THEN [tabs[t] EXCEPT !.valid = FALSE]
               ELSE tabs[t]]
  /\ screenshotQueue' = << >>
  /\ isProcessingScreenshots' = FALSE
  /\ loops' = {}
  /\ UNCHANGED <<now, store, activeTab, ctasks, ptasks, hist>>

\* A catch block that compares with <= instead of <
MutRetry(q, req) ==
  IF req.retryCount <= MAX_RETRIES
  THEN Append(q, [req EXCEPT !.retryCount = @ + 1])
  ELSE q

\* A catch block that puts the failed request back at the head
MutRetryFront(q, req) ==
  IF req.retryCount < MAX_RETRIES
  THEN <<[req EXCEPT !.retryCount = @ + 1]>> \o q
  ELSE q

\* The catch block of processScreenshotQueue: the queue after request req
\* has failed
Retry(q, req) ==
  IF req.retryCount < MAX_RETRIES
  THEN Append(q, [req EXCEPT !.retryCount = @ + 1])
  ELSE q

\* A loop with an if for the while: it handles one request per activation
\* and clears the flag whatever is queued
MutContinueOnce(l, q) ==
  /\ screenshotQueue' = q
  /\ loops' = loops \ {l}
  /\ isProcessingScreenshots' = FALSE

\* A loop that returns without clearing isProcessingScreenshots
MutContinue(l, q) ==
  IF q # << >>
  THEN /\ screenshotQueue' = Tail(q)
       /\ loops' = Replace(loops, l, Loop(Head(q)))
       /\ UNCHANGED isProcessingScreenshots
  ELSE /\ screenshotQueue' = q
       /\ loops' = loops \ {l}
       /\ UNCHANGED isProcessingScreenshots

\* The rest of the while loop after an attempt of loop l: the next request
\* is shifted, or the flag is cleared when the queue is empty
Continue(l, q) ==
  IF q # << >>
  THEN /\ screenshotQueue' = Tail(q)
       /\ loops' = Replace(loops, l, Loop(Head(q)))
       /\ UNCHANGED isProcessingScreenshots
  ELSE /\ screenshotQueue' = q
       /\ loops' = loops \ {l}
       /\ isProcessingScreenshots' = FALSE

\* takeScreenshot threw: retry or drop, then go on with the loop
Fail(l, error) ==
  LET req == [l.req EXCEPT !.error = error]
  IN /\ Continue(l, Retry(screenshotQueue, req))
     /\ hist' = IF Retry(screenshotQueue, req) # screenshotQueue THEN hist
                ELSE [hist EXCEPT !.dropped = @ \cup {req}]

TabExists(t) == tabs[t].st # "closed"

\* The SCREENSHOT_DELAY timer, chrome.tabs.get and chrome.tabs.update
\* (active: true).  The timer has no effect of its own, and a tab closed
\* between get and update makes update reject as get would have.
LoopActivate(l) ==
  /\ l \in loops /\ l.pc = "activate"
  /\ IF TabExists(l.req.tabId)
     THEN /\ activeTab' = l.req.tabId
          /\ loops' = Replace(loops, l, [l EXCEPT !.pc = "capture"])
          /\ UNCHANGED <<screenshotQueue, isProcessingScreenshots, hist>>
     ELSE /\ Fail(l, "No tab with id")
          /\ UNCHANGED activeTab
  /\ UNCHANGED <<now, store, tabs, ctasks, ptasks>>

\* The 100 ms timer and chrome.tabs.captureVisibleTab: an image of the tab
\* that is in the foreground now; then getCurrentSession is pending
LoopCapture(l) ==
  /\ l \in loops /\ l.pc = "capture"
  /\ IF activeTab # 0
     THEN /\ loops' = Replace(loops, l,
                        [l EXCEPT !.pc = "getCurrentSession", !.dataUrl = activeTab,
                                  !.gone = ~TabExists(l.req.tabId)])
          /\ UNCHANGED <<screenshotQueue, isProcessingScreenshots, hist>>
     ELSE Fail(l, "No active tab")
  /\ UNCHANGED <<now, store, tabs, activeTab, ctasks, ptasks>>

\* session.actions.find((a) => a.id === actionId): its index, 0 when none
FindAction(actions, actionId) ==
  IF \E i \in 1..Len(actions) : actions[i].id = actionId
  THEN CHOOSE i \in 1..Len(actions) :
         /\ actions[i].id = actionId
         /\ \A j \in 1..(i - 1) : actions[j].id # actionId
  ELSE 0

\* takeScreenshot: getCurrentSession, find the action, set its screenshot
LoopGetCurrent(l) ==
  /\ l \in loops /\ l.pc = "getCurrentSession"
  /\ LET cur == GetCurrentSession(store)
         i == IF cur = None THEN 0 ELSE FindAction(cur[1].actions, l.req.actionId)
     IN IF cur = None THEN Fail(l, "Aucune session active")
        ELSE IF i = 0 THEN Fail(l, "Action non trouvee dans la session")
        ELSE /\ loops' = Replace(loops, l,
                   [l EXCEPT !.pc = "saveSession_getData",
                             !.session = Some([cur[1] EXCEPT
                                !.actions[i].screenshot = l.dataUrl])])
             /\ UNCHANGED <<screenshotQueue, isProcessingScreenshots, hist>>
  /\ UNCHANGED <<now, store, tabs, activeTab, ctasks, ptasks>>

\* takeScreenshot: saveSession reads the document
LoopGetData(l) ==
  /\ l \in loops /\ l.pc = "saveSession_getData"
  /\ loops' = Replace(loops, l, [l EXCEPT !.pc = "saveData", !.data = Some(store)])
  /\ UNCHANGED <<now, store, tabs, activeTab, ctasks, ptasks, screenshotQueue,
                 isProcessingScreenshots, hist>>

\* A loop that pushes the request again after its attach has succeeded
MutLoopSaveData(l) ==
  /\ l \in loops /\ l.pc = "saveData"
  /\ store' = SaveSession(l.data[1], l.session[1])
  /\ Continue(l, Append(screenshotQueue, l.req))
  /\ hist' = [hist EXCEPT !.attached = @ \cup {l.req.rid}]
  /\ UNCHANGED <<now, tabs, activeTab, ctasks, ptasks>>

\* takeScreenshot: saveSession writes the document; the request is done
\* (hist.attached notes it)
LoopSaveData(l) ==
  /\ l \in loops /\ l.pc = "saveData"
  /\ store' = SaveSession(l.data[1], l.session[1])
  /\ Continue(l, screenshotQueue)
  /\ hist' = [hist EXCEPT !.attached = @ \cup {l.req.rid}]
  /\ UNCHANGED <<now, tabs, activeTab, ctasks, ptasks>>

\* ------------------------------------------------------------ environment
\* TickMs milliseconds pass, up to the time limit
Elapse(limit) ==
  /\ now < limit
  /\ now' = now + 1
  /\ UNCHANGED <<store, tabs, activeTab, ctasks, ptasks, screenshotQueue,
                 isProcessingScreenshots, loops, hist>>

Tick == Elapse(MaxTime)

\* The user closes tab t: its page and the handlers running in it are gone,
\* and the browser brings another open tab to the foreground.
CloseTab(t) ==
  /\ tabs[t].st # "closed"
  /\ tabs' = [tabs EXCEPT ![t] = FreshPage("closed")]
  /\ ptasks' = {p \in ptasks : p.tab # t}
  /\ IF activeTab # t THEN UNCHANGED activeTab
     ELSE IF OpenTabs = {t} THEN activeTab' = 0
     ELSE activeTab' \in OpenTabs \ {t}
  /\ hist' = [hist EXCEPT !.halted = @ \ {t}]
  /\ UNCHANGED <<now, store, ctasks, screenshotQueue, isProcessingScreenshots,
                 loops>>

\* The user loads a page in tab t (a navigation or a reload): the old
\* document and its handlers are gone, the new one has no content script
\* yet, and the browser will report the load to handleTabUpdate.
PageLoad(t) ==
  /\ tabs[t].st # "closed"
  /\ hist.loads < MaxLoads
  /\ tabs' = [tabs EXCEPT ![t] = FreshPage("loading")]
  /\ ptasks' = {p \in ptasks : p.tab # t}
  /\ ctasks' = ctasks \cup {TabUpdate(t)}
  /\ hist' = [hist EXCEPT !.loads = @ + 1, !.halted = @ \ {t}]
  /\ UNCHANGED <<now, store, activeTab, screenshotQueue, isProcessingScreenshots,
                 loops>>

\* The content script starts in the new document: the constructor calls
\* init, which adds the message listener and calls getCurrentSession
ScriptInit(t) ==
  /\ tabs[t].st = "loading"
  /\ tabs' = [tabs EXCEPT ![t].st = "ready", ![t].init = "getCurrentSession"]
  /\ UNCHANGED <<now, store, activeTab, ctasks, ptasks, screenshotQueue,
                 isProcessingScreenshots, loops, hist>>

\* ActionCapture.init after getCurrentSession: recording resumes when the
\* session read is recording
InitGetCurrent(t) ==
  /\ tabs[t].st = "ready" /\ tabs[t].init = "getCurrentSession"
  /\ LET cur == GetCurrentSession(store)
     IN tabs' = [tabs EXCEPT
                   ![t].init = "done",
                   ![t].rec = IF cur # None /\ cur[1].isRecording
                              THEN RecStart(@, cur[1].id) ELSE @]
  /\ UNCHANGED <<now, store, activeTab, ctasks, ptasks, screenshotQueue,
                 isProcessingScreenshots, loops, hist>>

\* ------------------------------------------------------------------- init
NoHistory ==
  [stops |-> {}, observed |-> << >>, dropped |-> {}, scrolls |-> << >>,
   deleted |-> None, clicks |-> << >>, attached |-> {}, loads |-> 0,
   sent |-> {}, starts |-> << >>, idle |-> None,
   unsaved |-> {}, created |-> None,
   caught |-> {}, late |-> {}, rejected |-> {}, raised |-> {},
   halted |-> {}]

Init ==
  /\ now = 1
  /\ store = DefaultData
  /\ tabs = [t \in Tabs |-> FreshPage("ready")]
  /\ activeTab = 1
  /\ ctasks = {}
  /\ ptasks = {}
  /\ screenshotQueue = << >>
  /\ isProcessingScreenshots = FALSE
  /\ loops = {}
  /\ hist = NoHistory

\* The state after CREATE_SESSION and START_RECORDING at time 1 with every
\* tab loaded: session 1 is current and recording, every page records it.
InitRecording ==
  /\ now = 1
  /\ store = [DefaultData EXCEPT
                !.sessions = <<[NewSession(1) EXCEPT !.isRecording = TRUE]>>,
                !.currentSession = 1]
  /\ tabs = [t \in Tabs |-> [FreshPage("ready") EXCEPT !.rec = RecStart(@, 1)]]
  /\ activeTab = 1
  /\ ctasks = {}
  /\ ptasks = {}
  /\ screenshotQueue = << >>
  /\ isProcessingScreenshots = FALSE
  /\ loops = {}
  /\ hist = NoHistory

\* The state after CREATE_SESSION at time 1: session 1 is stored, no
\* session is current, every tab is loaded and Idle.
InitCreated ==
  /\ now = 1
  /\ store = [DefaultData EXCEPT !.sessions = <<NewSession(1)>>]
  /\ tabs = [t \in Tabs |-> FreshPage("ready")]
  /\ activeTab \in Tabs
  /\ ctasks = {}
  /\ ptasks = {}
  /\ screenshotQueue = << >>
  /\ isProcessingScreenshots = FALSE
  /\ loops = {}
  /\ hist = NoHistory

\* The state after CREATE_SESSION at times 1 and 2 and START_RECORDING of
\* session 1: two sessions are stored, session 1 is current and recording,
\* every page records it.
InitTwoSessions ==
  /\ now = 2
  /\ store = [DefaultData EXCEPT
                !.sessions = <<[NewSession(1) EXCEPT !.isRecording = TRUE],
                               NewSession(2)>>,
                !.currentSession = 1]
  /\ tabs = [t \in Tabs |-> [FreshPage("ready") EXCEPT !.rec = RecStart(@, 1)]]
  /\ activeTab = 1
  /\ ctasks = {}
  /\ ptasks = {}
  /\ screenshotQueue = << >>
  /\ isProcessingScreenshots = FALSE
  /\ loops = {}
  /\ hist = NoHistory

\* The texts typed: 16 digits in four groups with or without separators,
\* and the texts of up to MaxTokens tokens
Groups == {<<"4", "1", "1", "1">>, <<"1", "1", "1", "1">>, <<"1", "2", "3", "4">>}
Separators == {<< >>, <<" ">>, <<"-">>}

CardTexts ==
  {g[1] \o p[1] \o g[2] \o p[2] \o g[3] \o p[3] \o g[4] :
     g \in [1..4 -> Groups], p \in [1..3 -> Separators]}

Tokens == {<<"a">>, <<"@">>, <<"b", ".", "c", "o">>, <<" ">>, <<"1", "2">>}

RECURSIVE Flatten(_)
Flatten(ts) == IF ts = << >> THEN << >> ELSE Head(ts) \o Flatten(Tail(ts))

TokenTexts ==
  {Flatten(ts) : ts \in UNION {[1..n -> Tokens] : n \in 1..MaxTokens}}

\* Recording, with a text in the telephone field of the page in tab 1
InitTyped ==
  /\ now = 1
  /\ store = [DefaultData EXCEPT
                !.sessions = <<[NewSession(1) EXCEPT !.isRecording = TRUE]>>,
                !.currentSession = 1]
  /\ \E text \in CardTexts \cup TokenTexts :
       tabs = [t \in Tabs |->
                 [FreshPage("ready") EXCEPT
                    !.rec = RecStart(@, 1),
                    !.typed = IF t = 1 THEN text ELSE << >>]]
  /\ activeTab = 1
  /\ ctasks = {}
  /\ ptasks = {}
  /\ screenshotQueue = << >>
  /\ isProcessingScreenshots = FALSE
  /\ loops = {}
  /\ hist = NoHistory

\* The documents: up to MaxNodes elements, each with or without a test
\* identifier, an id (a plain one, one that starts with a digit, one with
\* a dot), an aria-label, classes and text
Nodes ==
  [tagName : {"button", "div"},
   testid : {<< >>, <<"t">>},
   id : {<< >>, <<"x">>, <<"1">>, <<"x", ".", "c">>},
   aria : {<< >>, <<"l">>},
   className : {<< >>, <<"c", " ", "d">>},
   text : {<< >>, <<"o", "k">>}]

\* the other elements of a document matter by their tag (the positional
\* path) and by their id (its uniqueness)
Siblings == {e \in Nodes : e.testid = << >> /\ e.aria = << >>
                           /\ e.className = << >> /\ e.text = << >>}

Documents ==
  UNION {{doc \in [1..n -> Nodes] : \A j \in 2..n : doc[j] \in Siblings}
           : n \in 1..MaxNodes}

\* Recording, with a document in the page of tab 1
InitDocument ==
  /\ now = 1
  /\ store = [DefaultData EXCEPT
                !.sessions = <<[NewSession(1) EXCEPT !.isRecording = TRUE]>>,
                !.currentSession = 1]
  /\ \E doc \in Documents :
       tabs = [t \in Tabs |->
                 [FreshPage("ready") EXCEPT
                    !.rec = RecStart(@, 1),
                    !.dom = IF t = 1 THEN doc ELSE << >>]]
  /\ activeTab = 1
  /\ ctasks = {}
  /\ ptasks = {}
  /\ screenshotQueue = << >>
  /\ isProcessingScreenshots = FALSE
  /\ loops = {}
  /\ hist = NoHistory

\* A click as tab 1 stored it: the n-th action of session 1
PendingClick(n) ==
  [id |-> <<1, n>>, type |-> "click", timestamp |-> 1, value |-> "",
   screenshot |-> Absent, ev |-> n, tab |-> 1, pwd |-> FALSE]

\* The state two clicks in tab 1 lead to from InitRecording once both are
\* stored and both screenshots requested: the first request is being
\* processed, the second one waits in the queue.
InitPending ==
  /\ now = 1
  /\ store = [DefaultData EXCEPT
                !.sessions = <<[NewSession(1) EXCEPT
                                  !.isRecording = TRUE,
                                  !.actions = <<PendingClick(1), PendingClick(2)>>]>>,
                !.currentSession = 1]
  /\ tabs = [t \in Tabs |->
               [FreshPage("ready") EXCEPT
                  !.rec = [RecStart(@, 1) EXCEPT
                             !.actionCounter = IF t = 1 THEN 2 ELSE 0]]]
  /\ activeTab = 1
  /\ ctasks = {}
  /\ ptasks = {}
  /\ screenshotQueue = <<Request(<<1, 2>>, 1, 2)>>
  /\ isProcessingScreenshots = TRUE
  /\ loops = {Loop(Request(<<1, 1>>, 1, 1))}
  /\ hist = [NoHistory EXCEPT !.observed = <<1, 1>>]

CoordStep ==
  \/ \E t \in ctasks : CoordSaveSessionGet(t)
  \/ \E t \in ctasks : CoordSaveSessionSet(t)
  \/ \E t \in ctasks : CoordSetCurrentGet(t)
  \/ \E t \in ctasks : CoordSetCurrentSet(t)
  \/ \E t \in ctasks : CoordStartGetCurrent(t)
  \/ \E t \in ctasks : CoordNotifyActive(t)
  \/ \E t \in ctasks : CoordQueryTabs(t)
  \/ \E t \in ctasks : CoordNotify(t)

PageEvent ==
  \/ \E t \in Tabs, el \in Elements : HandleClick(t, el)
  \/ \E t \in Tabs, el \in Elements : HandleInput(t, el)
  \/ \E t \in Tabs : HandleNavigation(t)
  \/ \E t \in Tabs : HandleScroll(t)

PageStep ==
  \/ \E p \in ptasks : SaveActionGetCurrent(p)
  \/ \E p \in ptasks : SaveActionGetData(p)
  \/ \E p \in ptasks : SaveActionSaveData(p)
  \/ \E p \in ptasks : RequestScreenshot(p)

LoopStep ==
  \/ \E l \in loops : LoopActivate(l)
  \/ \E l \in loops : LoopCapture(l)
  \/ \E l \in loops : LoopGetCurrent(l)
  \/ \E l \in loops : LoopGetData(l)
  \/ \E l \in loops : LoopSaveData(l)

\* Session lifecycle: the UI's commands and the coordinator's handlers
NextLife ==
  \/ Tick
  \/ CreateSession
  \/ \E sid \in SessionIds(store) : StartRecording(sid)
  \/ StopRecording
  \/ CoordStep

SpecLife == Init /\ [][NextLife]_vars

\* The writers of the Session Store while a session is current: create,
\* stop and the deletes
NextStore ==
  \/ Tick
  \/ CreateSession
  \/ StopRecording
  \/ \E sid \in 1..MaxTime : ReceiveDeleteSession(sid)
  \/ ReceiveDeleteAll
  \/ \E t \in ctasks : CoordDeleteSet(t)
  \/ \E t \in ctasks : CoordSaveSessionGet(t)
  \/ \E t \in ctasks : CoordSaveSessionSet(t)
  \/ \E t \in ctasks : CoordSetCurrentGet(t)
  \/ \E t \in ctasks : CoordSetCurrentSet(t)
  \/ \E t \in ctasks : CoordQueryTabs(t)
  \/ \E t \in ctasks : CoordNotify(t)

SpecStore == InitRecording /\ [][NextStore]_vars

\* START_RECORDING for a session the popup lists, while tabs are closed
\* and sessions are deleted from the options page
NextStart ==
  \/ \E sid \in SessionIds(store) : StartRecording(sid)
  \/ \E t \in ctasks : CoordSetCurrentSet(t)
  \/ \E t \in ctasks : CoordStartGetCurrent(t)
  \/ \E t \in ctasks : CoordSaveSessionGet(t)
  \/ \E t \in ctasks : CoordSaveSessionSet(t)
  \/ \E t \in ctasks : CoordNotifyActive(t)
  \/ \E t \in ctasks : CoordQueryTabs(t)
  \/ \E t \in ctasks : CoordNotify(t)
  \/ \E t \in Tabs : CloseTab(t)
  \/ \E sid \in SessionIds(store) : ReceiveDeleteSession(sid)
  \/ \E t \in ctasks : CoordDeleteSet(t)

SpecStart == InitCreated /\ [][NextStart]_vars

\* Pages that load while a session is recording and while it is stopped
NextLoad ==
  \/ StopRecording
  \/ \E t \in ctasks : CoordSaveSessionGet(t)
  \/ \E t \in ctasks : CoordSaveSessionSet(t)
  \/ \E t \in ctasks : CoordSetCurrentGet(t)
  \/ \E t \in ctasks : CoordSetCurrentSet(t)
  \/ \E t \in ctasks : CoordQueryTabs(t)
  \/ \E t \in ctasks : CoordNotify(t)
  \/ \E t \in Tabs : PageLoad(t)
  \/ \E t \in Tabs : ScriptInit(t)
  \/ \E t \in Tabs : InitGetCurrent(t)
  \/ \E t \in ctasks : CoordTabUpdateGetCurrent(t)
  \/ \E t \in ctasks : CoordTabUpdateSend(t)

SpecLoad == InitRecording /\ [][NextLoad]_vars

\* Recording: the pages' events, their appends and the screenshot queue
Button == [tagName |-> "button", type |-> "", value |-> ""]

NextRec ==
  \/ \E t \in Tabs : HandleClick(t, Button)
  \/ PageStep
  \/ LoopStep
  \/ \E t \in Tabs : CloseTab(t)

SpecRec == InitRecording /\ [][NextRec]_vars

\* Recording pages whose extension context becomes invalid: their handlers
\* go on running against a messaging primitive that throws
NextInvalid ==
  \/ \E t \in Tabs : HandleClick(t, Button)
  \/ PageStep
  \/ InvalidateContext
  \/ \E p \in ptasks : SendMessageRejects(p)
  \/ \E p \in ptasks : StorageRejects(p)

SpecInvalid == InitRecording /\ [][NextInvalid]_vars

\* Deletes from the options page while the pages record: the clicks of
\* tab 1 (one at a time), their appends and the screenshot loop
NextDelete ==
  \/ ptasks = {} /\ HandleClick(1, Button)
  \/ PageStep
  \/ LoopStep
  \/ \E sid \in SessionIds(store) : ReceiveDeleteSession(sid)
  \/ ReceiveDeleteAll
  \/ \E t \in ctasks : CoordDeleteSet(t)

SpecDelete == InitRecording /\ [][NextDelete]_vars

\* START_RECORDING of another stored session while the pages record the
\* current one: the clicks of tab 1 (one at a time) and their appends
NextSwitch ==
  \/ \E sid \in SessionIds(store) \ {store.currentSession} : StartRecording(sid)
  \/ \E t \in ctasks : CoordSetCurrentSet(t)
  \/ \E t \in ctasks : CoordStartGetCurrent(t)
  \/ \E t \in ctasks : CoordSaveSessionGet(t)
  \/ \E t \in ctasks : CoordSaveSessionSet(t)
  \/ \E t \in ctasks : CoordNotifyActive(t)
  \/ \E t \in ctasks : CoordQueryTabs(t)
  \/ \E t \in ctasks : CoordNotify(t)
  \/ ptasks = {} /\ HandleClick(1, Button)
  \/ PageStep

SpecSwitch == InitTwoSessions /\ [][NextSwitch]_vars

\* The ids the popup can send with START_RECORDING: it takes the id from
\* its own state or from a read of the Store made before the message is
\* sent, so besides the stored ids the id of the session deleted last
PopupIds ==
  SessionIds(store) \cup
    (IF hist.deleted # None THEN {hist.deleted[1].sid} \ {Absent} ELSE {})

\* The lifecycle commands of the popup (start while no session is current,
\* stop while one is; create once the Store holds no session of this
\* moment) and the deletes of the options page
NextPointer ==
  \/ CreateSession
  \/ \E sid \in PopupIds : store.currentSession = Absent /\ StartRecording(sid)
  \/ store.currentSession # Absent /\ StopRecording
  \/ CoordStep
  \/ \E sid \in SessionIds(store) : ReceiveDeleteSession(sid)
  \/ ReceiveDeleteAll
  \/ \E t \in ctasks : CoordDeleteSet(t)

SpecPointer == InitCreated /\ [][NextPointer]_vars

\* Appends while the pointer is unset (after a stop, before the page is
\* told) or dangling (START_RECORDING with an id that is not stored), and
\* a session that becomes current afterwards (the clicks of tab 1, one at
\* a time)
NextUnsaved ==
  \/ \E sid \in SessionIds(store) \cup {MaxTime} :
       store.currentSession = Absent /\ StartRecording(sid)
  \/ store.currentSession # Absent /\ StopRecording
  \/ CoordStep
  \/ ptasks = {} /\ HandleClick(1, Button)
  \/ PageStep

SpecUnsaved == InitCreated /\ [][NextUnsaved]_vars

\* A page that is Idle, starts recording, records and is stopped (the
\* events of tab 1, one click at a time; the session is recorded once)
NextIdle ==
  \/ \E sid \in SessionIds(store) :
       store.currentSession = Absent /\ hist.stops = {} /\ StartRecording(sid)
  \/ store.currentSession # Absent /\ StopRecording
  \/ CoordStep
  \/ \E type \in EventTypes : HandleIdle(1, type)
  \/ ptasks = {} /\ HandleClick(1, Button)
  \/ PageStep

SpecIdle == InitCreated /\ [][NextIdle]_vars

\* Recording, where every await of processScreenshotQueue returns: the
\* timers fire and the tab, capture and storage calls resolve or reject, so
\* a running loop goes on to its next step
SpecDrain == SpecRec /\ WF_vars(LoopStep)

\* STOP_RECORDING while one request is being processed and one is queued
NextStop ==
  \/ LoopStep
  \/ StopRecording
  \/ \E t \in ctasks : CoordSaveSessionGet(t)
  \/ \E t \in ctasks : CoordSaveSessionSet(t)
  \/ \E t \in ctasks : CoordSetCurrentGet(t)
  \/ \E t \in ctasks : CoordSetCurrentSet(t)
  \/ \E t \in ctasks : CoordQueryTabs(t)
  \/ \E t \in ctasks : CoordNotify(t)

SpecStop == InitPending /\ [][NextStop]_vars

\* One page's events in full (every element, every kind of event) and their
\* appends; the screenshot loop runs too
NextPage ==
  \/ PageEvent
  \/ PageStep
  \/ LoopStep

SpecPage == InitRecording /\ [][NextPage]_vars

\* Input events on a telephone field, whose value goes through the
\* Sensitive Data Filter
NextRedact ==
  \/ \E t \in Tabs : HandleTyped(t)

SpecRedact == InitTyped /\ [][NextRedact]_vars

\* Clicks on the elements of a document, whose selectors are generated
NextSelect ==
  \/ \E t \in Tabs, k \in 1..MaxNodes : HandleClickOn(t, k)

SpecSelect == InitDocument /\ [][NextSelect]_vars

\* Scroll events on the recording pages while time passes, their appends
\* and the screenshot loop
NextScroll ==
  \/ Elapse(MaxScrollTime)
  \/ \E t \in Tabs : HandleScroll(t)
  \/ PageStep
  \/ LoopStep

SpecScroll == InitRecording /\ [][NextScroll]_vars

\* ------------------------------------------------------------------ claims
Sessions == {store.sessions[i] : i \in 1..Len(store.sessions)}

StoredActions == UNION {{s.actions[i] : i \in 1..Len(s.actions)} : s \in Sessions}

AllRequests ==
  {screenshotQueue[i] : i \in 1..Len(screenshotQueue)} \cup {l.req : l \in loops}

\* C1: at most one stored session has isRecording = true (so a session that
\* was recording when startRecording of another one completes is no longer
\* recording).
C1_AtMostOneRecording ==
  Cardinality({i \in 1..Len(store.sessions) : store.sessions[i].isRecording}) <= 1

\* C2: within every stored session the action ids are pairwise distinct.
C2_UniqueActionIds ==
  \A s \in Sessions : \A i, j \in 1..Len(s.actions) :
    i # j => s.actions[i].id # s.actions[j].id

\* the serial numbers of the events tab t has observed, in order
ObservedBy(t) ==
  SelectSeq([e \in 1..Len(hist.observed) |-> e], LAMBDA e : hist.observed[e] = t)

\* the serial numbers of the stored actions of session s that tab t appended
StoredBy(s, t) ==
  LET mine == SelectSeq(s.actions, LAMBDA a : a.tab = t)
  IN [i \in 1..Len(mine) |-> mine[i].ev]

Appending(t) ==
  \E p \in ptasks : p.tab = t /\ p.pc # "sendMessage"

\* C3: when the appends of the one page that has observed events are all
\* done, the current session (which has stayed current) holds exactly the
\* actions of those events, in the order the events were observed.
C3_NoAppendLost ==
  \A t \in Tabs :
    ( /\ \A e \in 1..Len(hist.observed) : hist.observed[e] = t
      /\ ~Appending(t)
      /\ GetCurrentSession(store) # None )
    => StoredBy(GetCurrentSession(store)[1], t) = ObservedBy(t)

\* C4: every stored action whose target is a password input, whatever its
\* kind, carries the mask as its element value.
C4_PasswordMasked ==
  \A a \in StoredActions : a.pwd => a.value = MASK

\* C5: at most one request is between its dequeue and its outcome.
C5_OneAtATime == Cardinality(loops) <= 1

\* C5 witness: a request arrived while another one was being processed and
\* waits in the queue.
C5_Witness ==
  /\ Cardinality(loops) = 1
  /\ screenshotQueue # << >>
  /\ \E l \in loops : l.pc = "capture"

\* C6: retryCount never exceeds MAX_RETRIES, no request is attempted more
\* than MAX_RETRIES + 1 times, and a request is dropped only when it fails
\* with retryCount at MAX_RETRIES; a dropped request is not in the queue.
C6_RetryBounded ==
  /\ \A r \in AllRequests \cup hist.dropped :
       /\ r.retryCount <= MAX_RETRIES
       /\ r.attempts <= MAX_RETRIES + 1
       /\ r.attempts <= r.retryCount + 1
  /\ \A r \in hist.dropped :
       /\ r.retryCount = MAX_RETRIES
       /\ r.attempts = MAX_RETRIES + 1
       /\ \A q \in AllRequests : q.rid # r.rid

\* C6 witness: a request has been dropped after its last retry, and another
\* one is in its last attempt.
C6_Witness ==
  /\ hist.dropped # {}
  /\ \E l \in loops : l.req.retryCount = MAX_RETRIES

\* C7: a request whose source tab was closed before the capture never
\* completes the attach (a loop that holds such a request at the saveData of
\* the attach does not perform it).
C7_ClosedTabNeverAttaches ==
  [][\A l \in loops : (l.gone /\ l.pc = "saveData") => l \in loops']_vars

ActionStored(actionId) == \E a \in StoredActions : a.id = actionId

NoStopRunning == \A t \in ctasks : t.kind # "stop"

EndTimeOf(data, sid) ==
  LET i == FindIndex(data.sessions, sid)
  IN IF i = 0 THEN Absent ELSE data.sessions[i].endTime

\* C9: endTime is absent until a stopRecording writes it, and once set it
\* never changes.
C9_EndTimeWrittenOnce ==
  [][\A sid \in 1..MaxTime :
       /\ EndTimeOf(store, sid) # Absent
            => EndTimeOf(store', sid) = EndTimeOf(store, sid)
       /\ (EndTimeOf(store, sid) = Absent /\ EndTimeOf(store', sid) # Absent)
            => \E t \in ctasks : t.kind = "stop" /\ t.pc = "saveData" /\ t.sid = sid
    ]_vars

\* C9 as amended: endTime is absent until recording of the session stops,
\* and every endTime in the Store is the time of a stopRecording of that
\* session (each stop of a session writes it, also when it was set before).
C9_EndTimeSetByStop ==
  \A s \in Sessions : s.endTime = Absent \/ <<s.id, s.endTime>> \in hist.stops

\* C9 witness: a session was stopped twice, and its endTime is that of the
\* second stop.
C9_Witness ==
  \E s \in Sessions :
    /\ \E e \in 1..MaxTime : e < s.endTime /\ <<s.id, e>> \in hist.stops
    /\ <<s.id, s.endTime>> \in hist.stops

\* C10: every stored session that has an endTime has endTime >= startTime.
C10_EndNotBeforeStart ==
  \A s \in Sessions : s.endTime # Absent => s.endTime >= s.startTime

\* C11: in every stored session the action timestamps are non-decreasing
\* along the action list.
C11_TimestampsNonDecreasing ==
  \A s \in Sessions : \A i, j \in 1..Len(s.actions) :
    i < j => s.actions[i].timestamp <= s.actions[j].timestamp

\* C12: the write of a delete, relative to the document d the delete read:
\* deleteAllSessions leaves no session and no pointer; deleteSession(id)
\* leaves no session id, clears the pointer when d's pointer is id (then
\* getCurrentSession returns none) and keeps d's pointer otherwise.
C12_DeleteClearsPointer ==
  [][\A t \in ctasks :
       (t.pc = "delete_saveData" /\ t \notin ctasks') =>
         LET d == t.data[1]
         IN IF t.kind = "deleteAll"
            THEN /\ store'.sessions = << >>
                 /\ store'.currentSession = Absent
                 /\ GetCurrentSession(store') = None
            ELSE /\ t.sid \notin SessionIds(store')
                 /\ d.currentSession = t.sid =>
                      /\ store'.currentSession = Absent
                      /\ GetCurrentSession(store') = None
                 /\ d.currentSession # t.sid =>
                      store'.currentSession = d.currentSession
    ]_vars

\* C12 witness: the current session has just been deleted while another
\* session is stored; the pointer is clear and the other session is there.
C12_Witness ==
  /\ hist.deleted # None
  /\ hist.deleted[1].current /\ hist.deleted[1].sid # Absent
  /\ hist.deleted[1].sid \notin SessionIds(store)
  /\ SessionIds(store) # {}
  /\ store.currentSession = Absent
  /\ GetCurrentSession(store) = None

\* the scroll events fired in tab t, in order
ScrollsOf(t) == SelectSeq(hist.scrolls, LAMBDA e : e.tab = t)

\* C13: a scroll event of a page is recorded (an action is built for it and
\* handed to saveAction) exactly when no recorded scroll of that page is
\* less than 1 second older, so of two scroll events less than 1 second
\* apart one is recorded and the other dropped, and two events 1 second
\* apart are both recorded; every scroll action in flight or stored is the
\* action of a recorded event, so a dropped event is never recorded later.
C13_ScrollThrottle ==
  /\ \A t \in Tabs :
       LET sc == ScrollsOf(t)
       IN \A j \in 1..Len(sc) :
            (sc[j].ev # 0) <=>
              \A i \in 1..(j - 1) :
                sc[i].ev # 0 =>
                  (sc[j].time - sc[i].time) * TickMs >= SCROLL_THROTTLE_MS
  /\ \A a \in StoredActions \cup {p.action : p \in ptasks} :
       a.type = "scroll" =>
         \E k \in 1..Len(hist.scrolls) :
           hist.scrolls[k] = [tab |-> a.tab, time |-> a.timestamp, ev |-> a.ev]

\* C13 witness: two scroll events on one page half a second apart; the
\* first is stored, the second was dropped and nothing is pending.
C13_Witness ==
  /\ \E t \in Tabs :
       /\ Len(ScrollsOf(t)) = 2
       /\ ScrollsOf(t)[1].ev # 0 /\ ScrollsOf(t)[2].ev = 0
       /\ (ScrollsOf(t)[2].time - ScrollsOf(t)[1].time) * TickMs = 500
  /\ ptasks = {}
  /\ Cardinality({a \in StoredActions : a.type = "scroll"}) = 1

\* the Store after a saveSession(s) that read document d is the upsert of s
Upserted(d, s) ==
  /\ Len(store'.sessions) =
       Len(d.sessions) + (IF s.id \in SessionIds(d) THEN 0 ELSE 1)
  /\ \A k \in 1..Len(d.sessions) :
       store'.sessions[k] = IF d.sessions[k].id = s.id THEN s ELSE d.sessions[k]
  /\ s.id \notin SessionIds(d) => store'.sessions[Len(store'.sessions)] = s
  /\ store'.currentSession = d.currentSession
  /\ store'.settings = d.settings

\* C14: every saveSession(s) writes, relative to the document it read: s in
\* the place of the stored session with s.id if there is one, else s
\* appended at the end; the other sessions, their order, the pointer and
\* the settings as read.  The session list never holds one id twice.
C14_SaveSessionUpsert ==
  [][ /\ \A t \in ctasks :
           (t.pc = "saveData" /\ t \notin ctasks') => Upserted(t.data[1], t.session[1])
      /\ \A p \in ptasks :
           (p.pc = "saveData" /\ p \notin ptasks' /\ tabs' = tabs)
             => Upserted(p.data[1], p.session[1])
      /\ \A l \in loops :
           (l.pc = "saveData" /\ l \notin loops') => Upserted(l.data[1], l.session[1])
      /\ \A i, j \in 1..Len(store'.sessions) :
           i # j => store'.sessions[i].id # store'.sessions[j].id
    ]_vars

\* C14 witness: the stop of session 1 has replaced it in place, in front of
\* session 2, which createSession appended.
C14_Witness ==
  /\ Len(store.sessions) = 2
  /\ store.sessions[1].id = 1 /\ store.sessions[1].endTime # Absent
  /\ store.sessions[2].id = 2
  /\ ctasks = {}

\* the values the handlers have computed for the telephone field of tab t
TypedValues(t) == {p.action.value : p \in {q \in ptasks : q.tab = t}}

\* C15: redacting a redacted text changes nothing:
\* redactText(redactText(t)) = redactText(t) for every text t.
C15_RedactIdempotent ==
  \A t \in Tabs : \A v \in TypedValues(t) : BlurSensitiveText(v) = v

\* the text is 16 digits in groups of four with optional separators
IsCardText(text) == MatchFrom(CreditCardPattern, 1, text, 1) = Len(text) + 1

\* C16: the redaction of a 16-digit card text ends in the last 4 digits of
\* the text and holds no digit before them.
C16_CardKeepsLastFour ==
  \A t \in Tabs : \A v \in TypedValues(t) :
    IsCardText(tabs[t].typed) =>
      /\ Len(v) >= 4
      /\ SubSeq(v, Len(v) - 3, Len(v)) =
           SubSeq(tabs[t].typed, Len(tabs[t].typed) - 3, Len(tabs[t].typed))
      /\ \A i \in 1..(Len(v) - 4) : v[i] \notin Digit

\* the elements of doc that carry the id of its k-th element
SameId(doc, k) == {j \in 1..Len(doc) : doc[j].id = doc[k].id}

\* what the five rules of C17 yield, in their order, for the k-th element
RuleOrder(doc, k) ==
  LET el == doc[k]
  IN IF el.testid # << >> THEN <<"[data-testid=\"">> \o el.testid \o <<"\"]">>
     ELSE IF el.id # << >> /\ SameId(doc, k) = {k} THEN <<"#">> \o el.id
     ELSE IF el.aria # << >> THEN <<"[aria-label=\"">> \o el.aria \o <<"\"]">>
     ELSE IF el.className # << >> /\ Trim(el.text) # << >>
     THEN <<".">> \o Split(el.className, {" "})[1]
            \o <<":contains(\"">> \o Trim(el.text) \o <<"\")">>
     ELSE GenerateXPath(doc, k)

\* C17: the selector of every clicked element is the result of the first
\* applicable rule (test identifier, unique id, aria-label, first class
\* token, positional path); so a unique id without a test identifier
\* yields "#<id>", and an id that another element carries is not used.
C17_SelectorRuleOrder ==
  \A c \in 1..Len(hist.clicks) :
    LET click == hist.clicks[c]
        doc == tabs[click.tab].dom
        k == click.node
    IN /\ click.selector = RuleOrder(doc, k)
       /\ (doc[k].id # << >> /\ SameId(doc, k) # {k})
            => click.selector # <<"#">> \o doc[k].id

\* the attach of loop l finds no current session, or no action with the
\* request's actionId in it
AttachFindsNothing(l) ==
  LET cur == GetCurrentSession(store)
  IN \/ cur = None
     \/ FindAction(cur[1].actions, l.req.actionId) = 0

\* C18: when the attach step of a request finds no current session, or no
\* action with the request's actionId, the request is dropped for good: it
\* is neither in the queue nor attempted afterwards, and the stored data
\* is unchanged.
C18_AttachFailureIsPermanent ==
  [][\A l \in loops :
       (l.pc = "getCurrentSession" /\ l \notin loops' /\ AttachFindsNothing(l))
       => /\ store' = store
          /\ \A r \in AllRequests' : r.rid # l.req.rid
    ]_vars

\* the requests in the order of their next attempt: the one being attempted,
\* then the queue; each as <<rid, retryCount>>
OrderOf(q) == [i \in 1..Len(q) |-> <<q[i].rid, q[i].retryCount>>]

Pending ==
  OrderOf(IF loops = {} THEN screenshotQueue
          ELSE <<(CHOOSE l \in loops : TRUE).req>> \o screenshotQueue)

\* the attempt of loop l ends in the catch block in this step
FailStep(l) ==
  /\ l \in loops
  /\ l.pc # "saveData"
  /\ \A m \in loops' : m.req # l.req

\* C19: a request that fails with retryCount below MAX_RETRIES goes to the
\* tail of the queue with retryCount + 1, behind every request that was in
\* the queue; and requests are attempted from the head, in the order of the
\* queue, so all of those are attempted before the failed one is again.
C19_RetryAtTail ==
  [][ /\ \A l \in loops :
           (FailStep(l) /\ l.req.retryCount < MAX_RETRIES)
           => Pending' = OrderOf(screenshotQueue)
                           \o <<<<l.req.rid, l.req.retryCount + 1>>>>
      /\ \E k \in {0, 1} :
           /\ k <= Len(Pending)
           /\ Len(Pending') >= Len(Pending) - k
           /\ Len(Pending') <= Len(Pending) - k + 1
           /\ SubSeq(Pending', 1, Len(Pending) - k)
                = SubSeq(Pending, 1 + k, Len(Pending))
    ]_vars

\* C19 witness: request 1 has failed while request 2 was in the queue; it
\* waits at the tail with retryCount 1 and request 2 is being attempted.
C19_Witness ==
  /\ \E l \in loops : l.req.rid = 2 /\ l.req.retryCount = 0
  /\ Len(screenshotQueue) = 1
  /\ screenshotQueue[1].rid = 1
  /\ screenshotQueue[1].retryCount = 1

\* C20: a request that has attached its screenshot, or that has been
\* dropped after its last retry, is never in the queue and never attempted
\* afterwards.
C20_TerminalRequests ==
  \A r \in AllRequests :
    /\ r.rid \notin hist.attached
    /\ \A d \in hist.dropped : d.rid # r.rid

\* C20 witness: one request has attached its screenshot and another one has
\* been dropped after MAX_RETRIES retries.
C20_Witness ==
  /\ hist.attached # {}
  /\ \E d \in hist.dropped :
       d.retryCount = MAX_RETRIES /\ d.rid \notin hist.attached

\* C21: when every call of the loop returns, the queue is eventually empty
\* and stays so, with no loop running and isProcessingScreenshots cleared,
\* also when a request's tab has been closed for good.
C21_QueueDrains ==
  <>[](screenshotQueue = << >> /\ loops = {} /\ ~isProcessingScreenshots)

\* C21 witness: the request of a closed tab has been dropped after its
\* retries, and the queue is empty with no loop running.
C21_Witness ==
  /\ \E d \in hist.dropped : ~TabExists(d.tabId) /\ d.error = "No tab with id"
  /\ screenshotQueue = << >>
  /\ loops = {}
  /\ ~isProcessingScreenshots

\* C22: an attempt that fails writes nothing to the Store, and the action
\* of a dropped request, where it is stored, has no screenshot.
C22_FailureLeavesAction ==
  /\ [][\A l \in loops : FailStep(l) => store' = store]_vars
  /\ [](\A d \in hist.dropped : \A a \in StoredActions :
          a.ev = d.rid => a.screenshot = Absent)

\* the stored session with the id of s, as a set of at most one session
StoredAs(data, s) ==
  {data.sessions[i] : i \in {j \in 1..Len(data.sessions) : data.sessions[j].id = s.id}}

ActionsOf(s) == {s.actions[i] : i \in 1..Len(s.actions)}

\* the write of an operation that read document d and built session s:
\* the stored session is s, and what other writers have put into that
\* session since s was read (an action, a screenshot) is gone
LastWriterWins(d, s) ==
  /\ store' = SaveSession(d, s)
  /\ StoredAs(store', s) = {s}
  /\ \A old \in StoredAs(store, s) :
       \A a \in ActionsOf(old) \ ActionsOf(s) :
         \A new \in StoredAs(store', s) : a \notin ActionsOf(new)

\* C23: no operation is isolated.  Whatever was written between the reads
\* and the write of an append or of a screenshot attach, the document after
\* the write is the one this operation built from what it read, and the
\* changes of the writers in between are absent from it.
C23_LastWriterWins ==
  [][ /\ \A p \in ptasks :
           (p.pc = "saveData" /\ p \notin ptasks' /\ tabs' = tabs)
             => LastWriterWins(p.data[1], p.session[1])
      /\ \A l \in loops :
           (l.pc = "saveData" /\ l \notin loops')
             => LastWriterWins(l.data[1], l.session[1])
    ]_vars

\* C23 witness: two pages have each appended a click, both appends are
\* complete and no page was closed, and one action only is stored.
C23_Witness ==
  /\ Len(hist.observed) = 2
  /\ hist.observed[1] # hist.observed[2]
  /\ \A t \in Tabs : tabs[t].st = "ready"
  /\ \A p \in ptasks : p.pc = "sendMessage"
  /\ Len(store.sessions[1].actions) = 1

\* C24: when a stopRecording returns, and nothing else has written to the
\* Store meanwhile, the session it stopped is stored with isRecording =
\* false and an endTime, no session is current, and the Recorder of every
\* page that has a listener is Idle; this also when the message to a page
\* was rejected.
C24_StopCompletes ==
  [][\A t \in ctasks :
       (t.kind = "stop" /\ t \notin ctasks' /\ \A u \in ctasks' : u.kind # "stop")
       => /\ store'.currentSession = Absent
          /\ \A i \in 1..Len(store'.sessions) :
               store'.sessions[i].id = t.sid
               => /\ ~store'.sessions[i].isRecording
                  /\ store'.sessions[i].endTime # Absent
          /\ \A p \in Tabs : tabs'[p].st = "ready" => ~tabs'[p].rec.isRecording
    ]_vars

\* the tabs in sequence q
Range(q) == {q[i] : i \in 1..Len(q)}

\* session sid is stored with isRecording = true and is the current one
MarkedRecording(sid) ==
  /\ store.currentSession = sid
  /\ \E s \in Sessions : s.id = sid /\ s.isRecording

\* C25: a startRecording(S) sends START_RECORDING to no tab twice and to
\* the foreground tab first; when it returns it has sent it to every open
\* tab; and it sends each one after it has written the pointer and
\* isRecording = true for S.
C25_StartNotifies ==
  /\ [](\A i, j \in 1..Len(hist.starts) : i # j => hist.starts[i] # hist.starts[j])
  /\ [][\A t \in ctasks :
          t.kind = "start"
          => /\ (t \notin ctasks' /\ \A u \in ctasks' : u.kind # "start")
                  => {p \in Tabs : tabs'[p].st # "closed"} \subseteq Range(hist.starts')
             /\ (t.pc = "notifyActive" /\ t \notin ctasks' /\ activeTab # 0)
                  => hist.starts' = <<activeTab>>
             /\ hist.starts' # hist.starts
                  => /\ t.session # None
                     /\ t.session[1].id = t.sid
                     /\ t.session[1].isRecording
       ]_vars

\* the ids of the actions in the handlers, in the Store and in the requests
ActionIds ==
  {p.action.id : p \in ptasks} \cup {a.id : a \in StoredActions}
    \cup {r.actionId : r \in AllRequests}

\* C26: an event observed by a page whose Recorder is Idle starts nothing:
\* the Store, the queue and the running handlers are as before; every
\* action in a handler, in the Store or in a request was built by a
\* Recorder bound to a session; and a Recorder that has handled
\* STOP_RECORDING answers GET_STATUS with isRecording = false and no
\* session id.
C26_IdleRecordsNothing ==
  /\ [][hist.idle' # hist.idle
          => UNCHANGED <<store, screenshotQueue, loops, ptasks, tabs>>]_vars
  /\ [](\A id \in ActionIds : id[1] # Absent)
  /\ [][\A t \in ctasks :
          (t.kind = "stop" /\ t.pc = "notify" /\ t \notin ctasks'
             /\ tabs[Head(t.todo)].st = "ready")
          => GetStatus(tabs'[Head(t.todo)].rec)
               = [isRecording |-> FALSE, sessionId |-> Absent]
       ]_vars

\* C26 witness: a page has recorded a click, was stopped, and has observed
\* an event since.
C26_Witness ==
  \E t \in Tabs :
    /\ \E a \in StoredActions : a.tab = t
    /\ Ignores(tabs[t].rec)
    /\ hist.idle # None /\ hist.idle[1].tab = t
    /\ \E s \in Sessions : s.endTime # Absent

\* C27: a saveAction that finds no current session (the pointer unset, or
\* set to an id that is not stored) writes nothing and goes on to the
\* screenshot request with no append pending; and the action of such an
\* event is never in the Store nor in an append later.
C27_NoSessionDropsAction ==
  /\ [][\A p \in ptasks :
          (p.pc = "getCurrentSession" /\ p \notin ptasks' /\ tabs' = tabs
             /\ GetCurrentSession(store) = None)
          => /\ store' = store
             /\ [p EXCEPT !.pc = "sendMessage"] \in ptasks'
             /\ p.session = None
       ]_vars
  /\ [](\A e \in hist.unsaved :
          /\ \A a \in StoredActions : a.ev # e
          /\ \A p \in ptasks : p.action.ev = e => p.pc = "sendMessage")

\* C27 witness: an action was dropped, a session is current again, and a
\* later action of the page is stored.
C27_Witness ==
  /\ hist.unsaved # {}
  /\ GetCurrentSession(store) # None
  /\ \E a \in StoredActions : \A e \in hist.unsaved : a.ev > e

\* C28: handleTabUpdate sets out to send START_RECORDING exactly when the
\* session it reads is current and recording; the message it sends carries
\* the id of the session that is current and recording when it is sent;
\* and a message that no listener receives changes neither the pages nor
\* the Store.
C28_TabUpdateStarts ==
  /\ [][\A t \in ctasks :
          (t.kind = "tabUpdate" /\ t \notin ctasks')
          => /\ t.pc = "getCurrentSession"
                  => LET cur == GetCurrentSession(store)
                     IN (cur # None /\ cur[1].isRecording)
                          <=> [t EXCEPT !.pc = "timer", !.sid = cur[1].id] \in ctasks'
             /\ t.pc = "timer"
                  => /\ MarkedRecording(t.sid)
                     /\ tabs[Head(t.todo)].st # "ready"
                          => (tabs' = tabs /\ store' = store)
       ]_vars
  /\ [](\A m \in hist.sent : m.current = m.sid)

\* C29: when captureVisibleTab is called for a request, the tab of the
\* request exists and is in the foreground; and every screenshot in the
\* Store is an image of the tab its action fired in.
C29_CaptureOfSourceTab ==
  /\ [][\A l \in loops :
          (l.pc = "capture" /\ l \notin loops')
          => (TabExists(l.req.tabId) /\ activeTab = l.req.tabId)
       ]_vars
  /\ [](\A a \in StoredActions : a.screenshot # Absent => a.screenshot = a.tab)

\* C30: the write of a createSession, relative to the document d it read:
\* the sessions of d as they were and in their order, one more session at
\* the end with isRecording = false, no action and no endTime, which is
\* the session returned, and the pointer of d.
C30_CreateAddsIdleSession ==
  [][\A t \in ctasks :
       (t.kind = "create" /\ t.pc = "saveData" /\ t \notin ctasks')
       => LET d == t.data[1]
              n == Len(store'.sessions)
          IN /\ n = Len(d.sessions) + 1
             /\ SubSeq(store'.sessions, 1, n - 1) = d.sessions
             /\ ~store'.sessions[n].isRecording
             /\ store'.sessions[n].actions = << >>
             /\ store'.sessions[n].endTime = Absent
             /\ store'.sessions[n].id \notin SessionIds(d)
             /\ hist'.created = Some(store'.sessions[n])
             /\ store'.currentSession = d.currentSession
    ]_vars

\* C30 witness: a session was created while session 1 was current and
\* recording; session 1 is stored as it was and is still current.
C30_Witness ==
  /\ hist.created # None
  /\ Len(store.sessions) = 2
  /\ store.sessions[2] = hist.created[1]
  /\ store.sessions[1] = [NewSession(1) EXCEPT !.isRecording = TRUE]
  /\ store.currentSession = 1

\* C31: once a page's Recorder has caught the context-invalidated error of
\* chrome.runtime.sendMessage, the events that page handles afterwards make
\* no messaging attempt (none that throws again, the context staying
\* invalid) and end with no error raised.
C31_NoAttemptAfterInvalidation ==
  \A e \in hist.late : e \notin hist.rejected /\ e \notin hist.raised

\* SelectorGenerator.isValidSelector: document.querySelector accepts the
\* selector.  Of the shapes generateSelector builds, the query engine
\* rejects "#" followed by something that is no identifier (with class
\* suffixes), and the pseudo-class :contains, which it does not know.
IsValidSelector(selector) ==
  /\ selector # Throws
  /\ \A i \in 1..Len(selector) : selector[i] # ":contains(\""
  /\ selector[1] = "#" =>
       LET parts == Split(Tail(selector), {"."})
       IN \A i \in 1..Len(parts) : IsIdent(parts[i])

\* the selector contains the text, character by character
Embeds(selector, text) ==
  \E i \in 1..Len(selector) :
    /\ i + Len(text) - 1 <= Len(selector)
    /\ SubSeq(selector, i, i + Len(text) - 1) = text

\* C32: selector generation never fails and never yields an invalid
\* selector: the selector of every recorded click is a selector the query
\* engine accepts or the positional path, it is never an error thrown into
\* the handler, and it never contains the element's text content.
C32_SelectorAlwaysValid ==
  \A i \in 1..Len(hist.clicks) :
    LET c == hist.clicks[i]
        doc == tabs[c.tab].dom
        text == Trim(doc[c.node].text)
    IN /\ c.selector # Throws
       /\ IsValidSelector(c.selector) \/ c.selector = GenerateXPath(doc, c.node)
       /\ text # << >> => ~Embeds(c.selector, text)

\* C33: in every state of the Store, a session whose isRecording is true is
\* the session the current-session pointer refers to.
C33_RecordingIsCurrent ==
  \A i \in 1..Len(store.sessions) :
    store.sessions[i].isRecording =>
      store.currentSession = store.sessions[i].id

\* C34: after deleteSession(id) or deleteAllSessions has completed, no
\* session with a deleted id is in the Store again (no session is created
\* in these runs, so the Store holds none of the ids the latest delete
\* removed: id, or every id).
C34_DeletedStaysDeleted ==
  hist.deleted # None =>
    IF hist.deleted[1].sid = Absent
    THEN store.sessions = << >>
    ELSE hist.deleted[1].sid \notin SessionIds(store)

\* the actions stored in document d
ActionsIn(d) ==
  UNION {{d.sessions[i].actions[j] : j \in 1..Len(d.sessions[i].actions)}
           : i \in 1..Len(d.sessions)}

\* C35: the write of an attach for the request issued for action a (the
\* action of event rid) puts the image into a itself, and the screenshot
\* of every other stored action is after the write what it was before.
C35_AttachToOwnAction ==
  [][\A l \in loops :
       (l.pc = "saveData" /\ l \notin loops') =>
         /\ \E a \in ActionsIn(store') :
              a.ev = l.req.rid /\ a.screenshot = l.dataUrl
         /\ \A b \in ActionsIn(store) : \A a \in ActionsIn(store') :
              (a.ev = b.ev /\ a.ev # l.req.rid) => a.screenshot = b.screenshot
    ]_vars

\* C36: an action that is stored with a screenshot is stored with that
\* screenshot after every step: no write removes the action's image or
\* puts another one in its place.
C36_ScreenshotKept ==
  [][\A a \in ActionsIn(store) :
       a.screenshot # Absent =>
         \E b \in ActionsIn(store') : b.ev = a.ev /\ b.screenshot = a.screenshot
    ]_vars

\* C37: every action stored in session S was produced by a Recorder bound
\* to S: its id is S_<n>.
C37_ActionsOfOwnSession ==
  \A s \in Sessions : \A i \in 1..Len(s.actions) : s.actions[i].id[1] = s.id

\* C38: once stopRecording has completed, a page that has handled its
\* STOP_RECORDING is not Recording, as long as no START_RECORDING command is
\* given (hist.halted holds the pages that handled the message since the
\* last command, and loses a page that is reloaded or closed).
C38_StoppedPageStaysIdle ==
  NoStopRunning => \A p \in hist.halted : ~tabs[p].rec.isRecording

\* C39: whenever isProcessingScreenshots is false the screenshot queue is
\* empty (and no activation of the loop is running): a request that is
\* queued has a consumer.
C39_IdleQueueEmpty ==
  ~isProcessingScreenshots => (screenshotQueue = << >> /\ loops = {})

\* C39 witness: two requests have been handled to their end, one of them
\* dropped after its retries had put it back at the tail, and the loop has
\* ended: the flag is false, the queue is empty.
C39_Witness ==
  /\ ~isProcessingScreenshots
  /\ screenshotQueue = << >>
  /\ Cardinality(hist.attached \cup {d.rid : d \in hist.dropped}) = 2
  /\ hist.dropped # {}

\* C40: in every state of the Store the current-session pointer is unset
\* or is the id of a session in the session list.
C40_PointerIsStored ==
  store.currentSession = Absent \/ store.currentSession \in SessionIds(store)

====
